---------------------------- MODULE Spec2Model ----------------------------
(***************************************************************************)
(* A model of the selection-to-Markdown userscripts.                       *)
(*                                                                         *)
(*   src/unnamed/part_001 (and its older twin part_000): the placeholder   *)
(*   pipeline  selectionToMarkdown : clone -> convertCodeBlocks ->         *)
(*   convertMediaWikiMath -> convertMathInContainer ->                     *)
(*   convertInlineTeXTextNodes -> turndown -> restoreMathPlaceholders ->   *)
(*   restoreCodePlaceholders -> collapseListSpacing ->                     *)
(*   collapseFencePadding -> trim.                                         *)
(*                                                                         *)
(*   src/userscript/Auto Markdown Selection to Clipboard.js: the line      *)
(*   based postprocessors and the Engine (debounce timer, cooldown gate,   *)
(*   fingerprint guard, inFlight/queued flags).                            *)
(*                                                                         *)
(* Text is a sequence of one-character strings.  Regular expressions are   *)
(* modelled by scanners that follow the JavaScript matching rules          *)
(* (leftmost match, greedy/lazy quantifiers, non-overlapping global        *)
(* replacement, the "$$" escape of replacement strings).                   *)
(***************************************************************************)
EXTENDS Integers, Sequences, FiniteSets, TLC

(***************************************************************************)
(* Characters and elementary string functions                              *)
(***************************************************************************)
NL == "\n"
BS == "\\"
\* the backquote character (a string literal cannot hold it)
BT == "BACKTICK"

IsWs(c) == c \in {" ", "\n", "\t", "\r"}

IsDigit(c) == c \in {"0", "1", "2", "3", "4", "5", "6", "7", "8", "9"}

DigitVal(c) ==
  CASE c = "0" -> 0 [] c = "1" -> 1 [] c = "2" -> 2 [] c = "3" -> 3
    [] c = "4" -> 4 [] c = "5" -> 5 [] c = "6" -> 6 [] c = "7" -> 7
    [] c = "8" -> 8 [] c = "9" -> 9

DigitChar(d) ==
  CASE d = 0 -> "0" [] d = 1 -> "1" [] d = 2 -> "2" [] d = 3 -> "3"
    [] d = 4 -> "4" [] d = 5 -> "5" [] d = 6 -> "6" [] d = 7 -> "7"
    [] d = 8 -> "8" [] d = 9 -> "9"

UpperLetters ==
  <<"A","B","C","D","E","F","G","H","I","J","K","L","M",
    "N","O","P","Q","R","S","T","U","V","W","X","Y","Z">>

LowerLetters ==
  <<"a","b","c","d","e","f","g","h","i","j","k","l","m",
    "n","o","p","q","r","s","t","u","v","w","x","y","z">>

\* the case folding of a /.../i match
Lower(c) ==
  IF \E i \in 1..26 : UpperLetters[i] = c
  THEN LowerLetters[CHOOSE i \in 1..26 : UpperLetters[i] = c]
  ELSE c

\* s[i..j] (empty when j < i)
Slice(s, i, j) == IF j < i THEN <<>> ELSE SubSeq(s, i, j)

\* p occurs in s starting at index i
StartsWithAt(s, i, p) ==
  /\ i >= 1
  /\ i + Len(p) - 1 <= Len(s)
  /\ \A k \in 1..Len(p) : s[i + k - 1] = p[k]

\* as StartsWithAt, ignoring case
StartsWithAtCI(s, i, p) ==
  /\ i >= 1
  /\ i + Len(p) - 1 <= Len(s)
  /\ \A k \in 1..Len(p) : Lower(s[i + k - 1]) = Lower(p[k])

Contains(s, p) == \E i \in 1..(Len(s) + 1) : StartsWithAt(s, i, p)

\* index of the first character at or after i that is not white space
RECURSIVE SkipWs(_, _)
SkipWs(s, i) == IF i <= Len(s) /\ IsWs(s[i]) THEN SkipWs(s, i + 1) ELSE i

\* index of the first character at or after i that is not a digit
RECURSIVE SkipDigits(_, _)
SkipDigits(s, i) == IF i <= Len(s) /\ IsDigit(s[i]) THEN SkipDigits(s, i + 1) ELSE i

\* index of the first character at or after i that is not a newline
RECURSIVE SkipNl(_, _)
SkipNl(s, i) == IF i <= Len(s) /\ s[i] = NL THEN SkipNl(s, i + 1) ELSE i

\* index of the last character at or before j that is not white space
RECURSIVE BackWs(_, _)
BackWs(s, j) == IF j >= 1 /\ IsWs(s[j]) THEN BackWs(s, j - 1) ELSE j

\* String.prototype.trim
trim(s) == LET i == SkipWs(s, 1) IN Slice(s, i, BackWs(s, Len(s)))

\* Number(idxStr) for a string of decimal digits
RECURSIVE Number(_)
Number(ds) ==
  IF ds = <<>> THEN 0
  ELSE 10 * Number(SubSeq(ds, 1, Len(ds) - 1)) + DigitVal(ds[Len(ds)])

\* the decimal digits of n, as template literal interpolation prints them
RECURSIVE NatToStr(_)
NatToStr(n) == IF n < 10 THEN <<DigitChar(n)>> ELSE NatToStr(n \div 10) \o <<DigitChar(n % 10)>>

RECURSIVE Concat(_)
Concat(ss) == IF ss = <<>> THEN <<>> ELSE Head(ss) \o Concat(Tail(ss))

At2 == <<"@", "@">>
MathPrefix == <<"@", "@", "M", "A", "T", "H">>
CodePrefix == <<"@", "@", "C", "O", "D", "E">>
Fence == <<BT, BT, BT>>
DD == <<"$", "$">>

(***************************************************************************)
(* part_001: the placeholder registries                                    *)
(***************************************************************************)
\* wrapLatex(latex, inline)
wrapLatex(latex, inline) ==
  LET txt == trim(latex) IN
  IF txt = <<>> THEN <<>>
  ELSE IF inline THEN <<"$">> \o txt \o <<"$">>
  ELSE DD \o <<NL>> \o txt \o <<NL>> \o DD

\* length of the match of /@@MATH(\d+)@@/ (or @@CODE) at index i, 0 if none
TokenMatchLen(s, i, prefix) ==
  IF ~StartsWithAt(s, i, prefix) THEN 0
  ELSE LET j == i + Len(prefix)
           e == SkipDigits(s, j)
       IN IF e > j /\ StartsWithAt(s, e, At2) THEN e + 2 - i ELSE 0

\* the capture group (\d+) of a match of length n at index i
TokenDigits(s, i, prefix, n) == SubSeq(s, i + Len(prefix), i + n - 3)

\* SNIPPETS[Number(idxStr)] || ""
SnippetOr(snippets, idx) ==
  IF idx + 1 <= Len(snippets) THEN snippets[idx + 1] ELSE <<>>

\* md.replace(/@@XXXX(\d+)@@/g, (m, idxStr) => SNIPPETS[Number(idxStr)] || '')
RECURSIVE ReplaceTokens(_, _, _, _)
ReplaceTokens(md, i, prefix, snippets) ==
  IF i > Len(md) THEN <<>>
  ELSE LET n == TokenMatchLen(md, i, prefix) IN
       IF n > 0
       THEN SnippetOr(snippets, Number(TokenDigits(md, i, prefix, n)))
              \o ReplaceTokens(md, i + n, prefix, snippets)
       ELSE <<md[i]>> \o ReplaceTokens(md, i + 1, prefix, snippets)

\* the same replace without the g flag: only the first match is replaced
RECURSIVE ReplaceFirstToken(_, _, _, _)
ReplaceFirstToken(md, i, prefix, snippets) ==
  IF i > Len(md) THEN <<>>
  ELSE LET n == TokenMatchLen(md, i, prefix) IN
       IF n > 0
       THEN SnippetOr(snippets, Number(TokenDigits(md, i, prefix, n)))
              \o SubSeq(md, i + n, Len(md))
       ELSE <<md[i]>> \o ReplaceFirstToken(md, i + 1, prefix, snippets)

\* a restoreMathPlaceholders whose pattern lacks the g flag
restoreFirstMathPlaceholder(md, snippets) == ReplaceFirstToken(md, 1, MathPrefix, snippets)

\* restoreMathPlaceholders(md), MATH_SNIPPETS given as the texts of its entries
restoreMathPlaceholders(md, snippets) == ReplaceTokens(md, 1, MathPrefix, snippets)

\* restoreCodePlaceholders(md), CODE_SNIPPETS given as the texts of its entries
restoreCodePlaceholders(md, snippets) == ReplaceTokens(md, 1, CodePrefix, snippets)

\* the template literals `@@MATH${idx}@@` and `@@CODE${idx}@@`
MathToken(idx) == MathPrefix \o NatToStr(idx) \o At2
CodeToken(idx) == CodePrefix \o NatToStr(idx) \o At2

\* end (exclusive) of the match of (?:Code\s*kopieren|Copy\s*code) at i, 0 if none
LabelEnd(t, i) ==
  IF StartsWithAtCI(t, i, <<"C","o","d","e">>)
       /\ StartsWithAtCI(t, SkipWs(t, i + 4), <<"k","o","p","i","e","r","e","n">>)
  THEN SkipWs(t, i + 4) + 8
  ELSE IF StartsWithAtCI(t, i, <<"C","o","p","y">>)
            /\ StartsWithAtCI(t, SkipWs(t, i + 4), <<"c","o","d","e">>)
  THEN SkipWs(t, i + 4) + 4
  ELSE 0

\* t.replace(/^\s*(?:Code\s*kopieren|Copy\s*code)\s*/i, '')
StripCopyLabel(t) ==
  LET e == LabelEnd(t, SkipWs(t, 1)) IN
  IF e = 0 THEN t ELSE Slice(t, SkipWs(t, e), Len(t))

\* index of the last character at or before j that is not a newline
RECURSIVE BackNl(_, _)
BackNl(s, j) == IF j >= 1 /\ s[j] = NL THEN BackNl(s, j - 1) ELSE j

\* t.replace(/\n+$/g, '')
StripTrailingNewlines(t) == Slice(t, 1, BackNl(t, Len(t)))

\* sanitizeCodeText(codeText)
sanitizeCodeText(codeText) == StripTrailingNewlines(StripCopyLabel(codeText))

\* the fenced text createCodePlaceholder pushes
FencedCode(codeText, language) ==
  Fence \o trim(language) \o <<NL>> \o sanitizeCodeText(codeText) \o <<NL>> \o Fence

(***************************************************************************)
(* part_001: postprocessing                                                *)
(***************************************************************************)
\* the lookahead (?=\s*(?:[-*+]\s|\d+\.\s)) at index i
ListAhead(s, i) ==
  LET j == SkipWs(s, i) IN
  \/ /\ j + 1 <= Len(s)
     /\ s[j] \in {"-", "*", "+"}
     /\ IsWs(s[j + 1])
  \/ LET e == SkipDigits(s, j) IN
     /\ e > j
     /\ e + 1 <= Len(s)
     /\ s[e] = "."
     /\ IsWs(s[e + 1])

\* the greedy match of \n\s*\n(?=...) at index i: the index of its closing \n,
\* 0 if there is no match (the longest \s* the lookahead accepts wins)
ListGapEnd(s, i) ==
  IF i > Len(s) \/ s[i] # NL THEN 0
  ELSE LET w == SkipWs(s, i + 1)
           Q == {q \in (i + 1)..(w - 1) : s[q] = NL /\ ListAhead(s, q + 1)}
       IN IF Q = {} THEN 0 ELSE CHOOSE q \in Q : \A r \in Q : r <= q

RECURSIVE ListSpacingFrom(_, _)
ListSpacingFrom(s, i) ==
  IF i > Len(s) THEN <<>>
  ELSE LET q == ListGapEnd(s, i) IN
       IF q > 0 THEN <<NL>> \o ListSpacingFrom(s, q + 1)
       ELSE <<s[i]>> \o ListSpacingFrom(s, i + 1)

\* collapseListSpacing(md): md.replace(/\n\s*\n(?=\s*(?:[-*+]\s|\d+\.\s))/g, '\n')
collapseListSpacing(md) == ListSpacingFrom(md, 1)

\* md.replace(/\r\n/g, '\n')
RECURSIVE NormalizeCRLF(_)
NormalizeCRLF(s) ==
  IF s = <<>> THEN <<>>
  ELSE IF Len(s) >= 2 /\ s[1] = "\r" /\ s[2] = NL THEN <<NL>> \o NormalizeCRLF(SubSeq(s, 3, Len(s)))
  ELSE <<s[1]>> \o NormalizeCRLF(Tail(s))

\* out.replace(/([^\n])\n{2,}FENCE/g, '$1\n' + repl): one character that is not a
\* newline, two or more newlines, the fence; the match keeps the character and
\* one newline and puts repl for the fence
RECURSIVE PadBeforeFrom(_, _, _, _)
PadBeforeFrom(s, i, fence, repl) ==
  IF i > Len(s) THEN <<>>
  ELSE LET e == SkipNl(s, i + 1) IN
       IF s[i] # NL /\ e >= i + 3 /\ StartsWithAt(s, e, fence)
       THEN <<s[i], NL>> \o repl \o PadBeforeFrom(s, e + Len(fence), fence, repl)
       ELSE <<s[i]>> \o PadBeforeFrom(s, i + 1, fence, repl)

\* out.replace(/FENCE\n{2,}([^\n])/g, repl + '\n$1')
RECURSIVE PadAfterFrom(_, _, _, _)
PadAfterFrom(s, i, fence, repl) ==
  IF i > Len(s) THEN <<>>
  ELSE LET b == i + Len(fence)
           e == SkipNl(s, b)
       IN IF StartsWithAt(s, i, fence) /\ e >= b + 2 /\ e <= Len(s)
          THEN repl \o <<NL, s[e]>> \o PadAfterFrom(s, e + 1, fence, repl)
          ELSE <<s[i]>> \o PadAfterFrom(s, i + 1, fence, repl)

\* out.replace(/\n{3,}/g, '\n\n')
RECURSIVE CollapseNewlineRuns(_, _)
CollapseNewlineRuns(s, i) ==
  IF i > Len(s) THEN <<>>
  ELSE LET e == SkipNl(s, i) IN
       IF e >= i + 3 THEN <<NL, NL>> \o CollapseNewlineRuns(s, e)
       ELSE <<s[i]>> \o CollapseNewlineRuns(s, i + 1)

\* what the replacement string '$1\n$$' (and '$$\n$1') puts for the fence: in a
\* JavaScript replacement string "$$" stands for one "$"
DollarRepl == <<"$">>

\* collapseFencePadding(md)
collapseFencePadding(md) ==
  LET o0 == NormalizeCRLF(md)
      o1 == PadBeforeFrom(o0, 1, Fence, Fence)
      o2 == PadAfterFrom(o1, 1, Fence, Fence)
      o3 == PadBeforeFrom(o2, 1, DD, DollarRepl)
      o4 == PadAfterFrom(o3, 1, DD, DollarRepl)
  IN CollapseNewlineRuns(o4, 1)

\* the tail of selectionToMarkdown: collapseListSpacing, collapseFencePadding, trim
PostProcess001(md) == trim(collapseFencePadding(collapseListSpacing(md)))

(***************************************************************************)
(* userscript: the line based postprocessors                               *)
(***************************************************************************)
\* Policies.blanklineMax
blanklineMax == 1

\* md.split('\n')
RECURSIVE SplitFrom(_, _, _)
SplitFrom(s, i, cur) ==
  IF i > Len(s) THEN <<cur>>
  ELSE IF s[i] = NL THEN <<cur>> \o SplitFrom(s, i + 1, <<>>)
  ELSE SplitFrom(s, i + 1, Append(cur, s[i]))

SplitLines(s) == SplitFrom(s, 1, <<>>)

\* out.join('\n')
RECURSIVE JoinLines(_)
JoinLines(ls) ==
  IF ls = <<>> THEN <<>>
  ELSE IF Len(ls) = 1 THEN ls[1]
  ELSE ls[1] \o <<NL>> \o JoinLines(Tail(ls))

\* /^\s*```/.test(line)
IsFenceLine(l) == StartsWithAt(l, SkipWs(l, 1), Fence)

\* /^\s*\$\$\s*$/.test(line)
IsDispLine(l) == trim(l) = DD

\* !line.trim()
IsBlankLine(l) == trim(l) = <<>>

\* /^\s*\|.*\|\s*$/.test(line)
IsTableRow(l) ==
  LET t == trim(l) IN
  /\ Len(t) >= 2
  /\ t[1] = "|"
  /\ t[Len(t)] = "|"
  /\ \A k \in 1..Len(t) : t[k] # "\r"

\* /^\s*\|?[-: ]+\|[-|: ]*\s*$/.test(line)
IsTableSeparator(l) ==
  \E p \in 1..Len(l) :
    /\ l[p] = "|"
    /\ \E k \in 0..(p - 1) :
         /\ \A x \in 1..k : IsWs(l[x])
         /\ LET b == IF k + 1 <= p - 1 /\ l[k + 1] = "|" THEN k + 2 ELSE k + 1 IN
            /\ b <= p - 1
            /\ \A x \in b..(p - 1) : l[x] \in {"-", ":", " "}
    /\ \E m \in p..Len(l) :
         /\ \A x \in (p + 1)..m : l[x] \in {"-", "|", ":", " "}
         /\ \A x \in (m + 1)..Len(l) : IsWs(l[x])

IsTableLine(l) == IsTableRow(l) \/ IsTableSeparator(l)

\* the loop of normalizeBlanklinesBlockSafe over lines[i..]
RECURSIVE NormalizeFrom(_, _, _, _, _, _)
NormalizeFrom(lines, i, inFence, inDisplayMath, blankCount, maxBlank) ==
  IF i > Len(lines) THEN <<>>
  ELSE LET line == lines[i] IN
    IF IsFenceLine(line)
    THEN <<line>> \o NormalizeFrom(lines, i + 1, ~inFence, inDisplayMath, 0, maxBlank)
    ELSE IF IsDispLine(line)
    THEN <<line>> \o NormalizeFrom(lines, i + 1, inFence, ~inDisplayMath, 0, maxBlank)
    ELSE IF inFence \/ inDisplayMath \/ IsTableLine(line)
    THEN <<line>> \o NormalizeFrom(lines, i + 1, inFence, inDisplayMath, 0, maxBlank)
    ELSE IF IsBlankLine(line)
    THEN (IF blankCount + 1 <= maxBlank THEN << <<>> >> ELSE <<>>)
           \o NormalizeFrom(lines, i + 1, inFence, inDisplayMath, blankCount + 1, maxBlank)
    ELSE <<line>> \o NormalizeFrom(lines, i + 1, inFence, inDisplayMath, 0, maxBlank)

\* normalizeBlanklinesBlockSafe(md, maxBlank)
normalizeBlanklinesBlockSafe(md, maxBlank) ==
  JoinLines(NormalizeFrom(SplitLines(NormalizeCRLF(md)), 1, FALSE, FALSE, 0, maxBlank))

\* the loop of tightenAdjacentDisplayMathBlocks over lines[i..]
RECURSIVE AdjacentFrom(_, _)
AdjacentFrom(lines, i) ==
  IF i > Len(lines) THEN <<>>
  ELSE IF /\ IsDispLine(lines[i])
          /\ i + 2 <= Len(lines)
          /\ IsBlankLine(lines[i + 1])
          /\ IsDispLine(lines[i + 2])
  THEN <<lines[i]>> \o AdjacentFrom(lines, i + 2)
  ELSE <<lines[i]>> \o AdjacentFrom(lines, i + 1)

\* the loop that would also drop the two delimiters around the blank line
RECURSIVE AdjacentDropFrom(_, _)
AdjacentDropFrom(lines, i) ==
  IF i > Len(lines) THEN <<>>
  ELSE IF /\ IsDispLine(lines[i])
          /\ i + 2 <= Len(lines)
          /\ IsBlankLine(lines[i + 1])
          /\ IsDispLine(lines[i + 2])
  THEN AdjacentDropFrom(lines, i + 3)
  ELSE <<lines[i]>> \o AdjacentDropFrom(lines, i + 1)

dropAdjacentDelimiters(md) == JoinLines(AdjacentDropFrom(SplitLines(md), 1))

\* tightenAdjacentDisplayMathBlocks(md)
tightenAdjacentDisplayMathBlocks(md) == JoinLines(AdjacentFrom(SplitLines(md), 1))

\* listMatch(l): l.match(/^(\s*)([-*+]|\d+\.)\s+/); the length of group 1, or -1
ListIndent(l) ==
  LET j == SkipWs(l, 1)
      e == SkipDigits(l, j)
  IN IF j + 1 <= Len(l) /\ l[j] \in {"-", "*", "+"} /\ IsWs(l[j + 1]) THEN j - 1
     ELSE IF e > j /\ e + 1 <= Len(l) /\ l[e] = "." /\ IsWs(l[e + 1]) THEN j - 1
     ELSE -1

\* the loop of tightenListsBlockSafe over lines[i..], out being what was pushed
RECURSIVE TightenFrom(_, _, _, _, _)
TightenFrom(lines, i, out, inFence, inDisplayMath) ==
  IF i > Len(lines) THEN out
  ELSE LET line == lines[i] IN
    IF IsFenceLine(line) THEN TightenFrom(lines, i + 1, Append(out, line), ~inFence, inDisplayMath)
    ELSE IF IsDispLine(line) THEN TightenFrom(lines, i + 1, Append(out, line), inFence, ~inDisplayMath)
    ELSE IF inFence \/ inDisplayMath THEN TightenFrom(lines, i + 1, Append(out, line), inFence, inDisplayMath)
    ELSE LET prev == IF out # <<>> THEN out[Len(out)] ELSE <<>>
             next == IF i + 1 <= Len(lines) THEN lines[i + 1] ELSE <<>>
             p == ListIndent(prev)
             n == ListIndent(next)
         IN IF IsBlankLine(line) /\ p >= 0 /\ n >= 0 /\ p = n
            THEN TightenFrom(lines, i + 1, out, inFence, inDisplayMath)
            ELSE TightenFrom(lines, i + 1, Append(out, line), inFence, inDisplayMath)

\* tightenListsBlockSafe(md)
tightenListsBlockSafe(md) == JoinLines(TightenFrom(SplitLines(md), 1, <<>>, FALSE, FALSE))

\* postProcess(md), with Policies.tightLists and Policies.adjacentDisplayMathTight on
postProcess(md) ==
  trim(tightenAdjacentDisplayMathBlocks(
         tightenListsBlockSafe(normalizeBlanklinesBlockSafe(md, blanklineMax)))) \o <<NL>>

(***************************************************************************)
(* part_001: the scratch container and the extractor passes                *)
(*                                                                         *)
(* The scratch container is the sequence of its child nodes, in document   *)
(* order.  A node is a record                                              *)
(*   kind    "text" | "pre" | "katex" | "mjx" | "math" | "script"          *)
(*   text    a text node's nodeValue; a pre's textContent; for a math      *)
(*           element the LaTeX its pass resolves, before trimming (the     *)
(*           TeX annotation, the converter's result or the textContent)    *)
(*   lang    a pre's language, as extractLangFrom finds it                 *)
(*   display a math element's display signal (wrapper class or attribute)  *)
(*   tok     a text node that a pass created from a placeholder token      *)
(* The selections considered hold no MediaWiki markup and are not on a     *)
(* MediaWiki host, so convertMediaWikiMath returns at its first line.      *)
(***************************************************************************)
TextNode(t) == [kind |-> "text", text |-> t, lang |-> <<>>, display |-> FALSE, tok |-> FALSE]
TokenNode(t) == [kind |-> "text", text |-> t, lang |-> <<>>, display |-> FALSE, tok |-> TRUE]
PreNode(t, l) == [kind |-> "pre", text |-> t, lang |-> l, display |-> FALSE, tok |-> FALSE]
MathNode(k, t, d) == [kind |-> k, text |-> t, lang |-> <<>>, display |-> d, tok |-> FALSE]

\* a run that starts without the reset: the registry keeps its entries
KeepRegistry(reg) == reg

\* MATH_SNIPPETS = []; CODE_SNIPPETS = []
ResetRegistry(reg) == <<>>

\* an index taken after the push instead of before it
IndexAfterPush(reg) == Len(reg) + 1

\* const idx = SNIPPETS.length, taken before the push
PlaceholderIndex(reg) == Len(reg)

\* createMathPlaceholder(latex, inline): the registry after the push and the
\* token returned.  An entry is the text pushed; body, inline and run are
\* history tags (what was wrapped, how, and the run that registered it)
createMathPlaceholder(reg, latex, inline, r) ==
  [reg |-> Append(reg, [text |-> wrapLatex(latex, inline), body |-> trim(latex),
                        inline |-> inline, run |-> r]),
   token |-> MathToken(PlaceholderIndex(reg))]

\* createCodePlaceholder(codeText, language)
createCodePlaceholder(reg, codeText, language, r) ==
  [reg |-> Append(reg, [text |-> FencedCode(codeText, language),
                        body |-> sanitizeCodeText(codeText), run |-> r]),
   token |-> CodeToken(PlaceholderIndex(reg))]

\* the index a token carries
TokenIndex(token) == Number(SubSeq(token, 7, Len(token) - 2))

\* if (!codeText.trim()) return;  -- the guard of convertCodeBlocks
CodeBlockConvertible(n) == n.kind = "pre" /\ trim(n.text) # <<>>

\* convertCodeBlocks(root): pres.forEach over nodes[i..]; st holds the nodes
\* already passed (dom), CODE_SNIPPETS (reg) and the indices emitted (em)
RECURSIVE CodePass(_, _, _, _)
CodePass(nodes, i, st, r) ==
  IF i > Len(nodes) THEN st
  ELSE IF CodeBlockConvertible(nodes[i])
  THEN LET c == createCodePlaceholder(st.reg, nodes[i].text, nodes[i].lang, r) IN
       CodePass(nodes, i + 1,
                [dom |-> Append(st.dom, TokenNode(c.token)),
                 reg |-> c.reg,
                 em |-> Append(st.em, TokenIndex(c.token))], r)
  ELSE CodePass(nodes, i + 1, [st EXCEPT !.dom = Append(st.dom, nodes[i])], r)

\* if (!latex) return;  -- the guard of each pass of convertMathInContainer
MathConvertible(n, kind) == n.kind = kind /\ trim(n.text) # <<>>

\* one querySelectorAll(...).forEach pass of convertMathInContainer
RECURSIVE MathPass(_, _, _, _, _)
MathPass(nodes, i, st, kind, r) ==
  IF i > Len(nodes) THEN st
  ELSE IF MathConvertible(nodes[i], kind)
  THEN LET c == createMathPlaceholder(st.reg, trim(nodes[i].text), ~nodes[i].display, r) IN
       MathPass(nodes, i + 1,
                [dom |-> Append(st.dom, TokenNode(c.token)),
                 reg |-> c.reg,
                 em |-> Append(st.em, TokenIndex(c.token))], kind, r)
  ELSE MathPass(nodes, i + 1, [st EXCEPT !.dom = Append(st.dom, nodes[i])], kind, r)

\* convertMathInContainer(root): KaTeX, MathJax, bare math, TeX scripts, in turn
convertMathInContainer(nodes, reg, em, r) ==
  LET s1 == MathPass(nodes, 1, [dom |-> <<>>, reg |-> reg, em |-> em], "katex", r)
      s2 == MathPass(s1.dom, 1, [s1 EXCEPT !.dom = <<>>], "mjx", r)
      s3 == MathPass(s2.dom, 1, [s2 EXCEPT !.dom = <<>>], "math", r)
  IN MathPass(s3.dom, 1, [s3 EXCEPT !.dom = <<>>], "script", r)

\* val.includes('\\(') || val.includes('\\[') || val.includes('$$')
HasTeXMarker(t) ==
  Contains(t, <<BS, "(">>) \/ Contains(t, <<BS, "[">>) \/ Contains(t, DD)

\* the lazy group of texRegex: the least e >= from with close at e, the text
\* before it holding no line terminator when dot is set; 0 if there is none
LazyClose(t, from, close, dot) ==
  LET E == {e \in from..Len(t) :
              /\ StartsWithAt(t, e, close)
              /\ dot => \A k \in (from - 1)..(e - 1) : t[k] \notin {NL, "\r"}}
  IN IF E = {} THEN 0 ELSE CHOOSE e \in E : \A f \in E : e <= f

\* texRegex at index i: [len, inline, content] of the match, len = 0 if none
\*   /\\\((.+?)\\\)|\\\[([\s\S]+?)\\\]|\$\$([\s\S]+?)\$\$/
TeXMatch(t, i) ==
  LET e1 == IF StartsWithAt(t, i, <<BS, "(">>) THEN LazyClose(t, i + 3, <<BS, ")">>, TRUE) ELSE 0
      e2 == IF StartsWithAt(t, i, <<BS, "[">>) THEN LazyClose(t, i + 3, <<BS, "]">>, FALSE) ELSE 0
      e3 == IF StartsWithAt(t, i, DD) THEN LazyClose(t, i + 3, DD, FALSE) ELSE 0
  IN IF e1 > 0 THEN [len |-> e1 + 2 - i, inline |-> TRUE, content |-> SubSeq(t, i + 2, e1 - 1)]
     ELSE IF e2 > 0 THEN [len |-> e2 + 2 - i, inline |-> FALSE, content |-> SubSeq(t, i + 2, e2 - 1)]
     ELSE IF e3 > 0 THEN [len |-> e3 + 2 - i, inline |-> FALSE, content |-> SubSeq(t, i + 2, e3 - 1)]
     ELSE [len |-> 0, inline |-> TRUE, content |-> <<>>]

\* the while ((m = texRegex.exec(text)) !== null) loop on one text node: i is
\* the scan position, lastIndex the end of the previous match; st as above
RECURSIVE TeXSplit(_, _, _, _, _)
TeXSplit(t, i, lastIndex, st, r) ==
  IF i > Len(t)
  THEN IF lastIndex <= Len(t)
       THEN [st EXCEPT !.dom = Append(st.dom, TextNode(SubSeq(t, lastIndex, Len(t))))]
       ELSE st
  ELSE LET m == TeXMatch(t, i) IN
       IF m.len = 0 THEN TeXSplit(t, i + 1, lastIndex, st, r)
       ELSE LET c == createMathPlaceholder(st.reg, trim(m.content), m.inline, r)
                d == IF i > lastIndex
                     THEN Append(st.dom, TextNode(SubSeq(t, lastIndex, i - 1)))
                     ELSE st.dom
            IN TeXSplit(t, i + m.len, i + m.len,
                        [dom |-> Append(d, TokenNode(c.token)),
                         reg |-> c.reg,
                         em |-> Append(st.em, TokenIndex(c.token))], r)

\* convertInlineTeXTextNodes(root): textNodes.forEach over nodes[i..]
RECURSIVE TeXPass(_, _, _, _)
TeXPass(nodes, i, st, r) ==
  IF i > Len(nodes) THEN st
  ELSE IF nodes[i].kind = "text" /\ nodes[i].text # <<>> /\ HasTeXMarker(nodes[i].text)
  THEN TeXPass(nodes, i + 1, TeXSplit(nodes[i].text, 1, 1, st, r), r)
  ELSE TeXPass(nodes, i + 1, [st EXCEPT !.dom = Append(st.dom, nodes[i])], r)

\* container.innerHTML is blank: every child is a text node of white space
HtmlBlank(nodes) ==
  \A i \in 1..Len(nodes) : nodes[i].kind = "text" /\ trim(nodes[i].text) = <<>>

\* turndownService.turndown(html) on what the passes leave: the text nodes
\* (plain text without Markdown syntax, and tokens) come out as they are; an
\* element a pass skipped has only white space and renders as nothing
RECURSIVE Turndown(_)
Turndown(nodes) ==
  IF nodes = <<>> THEN <<>>
  ELSE (IF Head(nodes).kind = "text" THEN Head(nodes).text ELSE <<>>) \o Turndown(Tail(nodes))

\* the texts of a registry's entries
Texts(reg) == [i \in 1..Len(reg) |-> reg[i].text]

(***************************************************************************)
(* State                                                                   *)
(***************************************************************************)
VARIABLES
  \* part_001, one call of handleSelectionEvent after another
  pc,             \* the position in selectionToMarkdown
  dom,            \* the scratch container
  MATH_SNIPPETS,  \* the math registry
  CODE_SNIPPETS,  \* the code registry
  md,             \* the local md of selectionToMarkdown
  ret,            \* how the call ended: "none" (running), "null", "md", "throw"
  run,            \* history: the number of runs that reached the reset
  src,            \* history: the scratch container as cloned
  emMath,         \* history: the indices of the math tokens returned, in order
  emCode,         \* history: the indices of the code tokens returned, in order
  stale,          \* history: a registry held entries when this run reset it
  \* postprocessing applied to a text and then to its own output
  ppc,            \* "in", "once" or "twice": how often it has been applied
  variant,        \* "none", "part_001" or "userscript": which postprocessing
  pin,            \* the Markdown text given
  pout1,          \* the output of the first application
  pout2,          \* the output of the second application
  \* userscript: Engine, schedule and the event loop of the page
  hpc,            \* the position in handleTrigger: "idle", "pass", "finally"
  inFlight,       \* Engine.inFlight
  queued,         \* Engine.queued
  lastSig,        \* Engine.lastSig
  cooldownUntil,  \* Engine.cooldownUntil
  timer,          \* the timer id schedule keeps (the deadline it was set for)
  timers,         \* the timeouts pending in the page
  events,         \* the mouseup / keyup events waiting in the event loop
  now,            \* Date.now()
  toast,          \* what the toast shows
  passes,         \* history: the passes that set inFlight and have not ended
  arrived,        \* history: the events that arrived during the current pass
  wrote,          \* what clipboard.writeNow returned in the current pass
  thrown,         \* history: the step of the current pass that threw
  promises,       \* the clipboard promises not settled yet
  trigSel,        \* history: the selection at the latest handleTrigger call
  lastStart,      \* history: Date.now() when the latest pass started
  \* part_001: handleSelectionEvent, one event after another
  lastCopied,     \* lastCopied
  csel,           \* history: the selection at the latest event
  cwrote,         \* history: how the latest event ended: "none", "ok", "threw", "aborted"
  ctoast,         \* history: the toast the latest event showed
  cevents,        \* history: the events handled
  \* userscript: the turndown rule "math" on one element
  wpc,            \* "in" or "out": whether the rule has been applied
  wnode,          \* the element, as the rule reads it
  wout,           \* the replacement the rule returned
  \* userscript: the TeX helpers on one string
  tpc,            \* "in", "stripped" or "normalized": the helper applied
  tin,            \* the string given
  tout,           \* the string returned (of normalizeWikiTex: latex)
  tforce,         \* forceDisplay as normalizeWikiTex returned it
  \* part_000 and part_001: the extractor passes on a scratch tree
  spc,            \* "cloned", "code", "wiki" or "math": the last pass done
  sscript,        \* "part_000" or "part_001": the script that runs
  shost,          \* "canonical" or "mirror": what location.hostname is
  sinit,          \* history: the scratch tree as it was cloned
  sroot,          \* the scratch tree
  smath,          \* MATH_SNIPPETS
  scode,          \* CODE_SNIPPETS
  \* part_001: selectionToMarkdown from the live range to the scratch container
  rpc,            \* "selected", "expanded", "cloned", "code" or "math"
  ldoc,           \* the children of the live document's body
  rstart,         \* the range's start: <<path of the container, offset>>
  rend,           \* the range's end
  rstart0,        \* history: the start the selection had
  rend0,          \* history: the end the selection had
  rfrag,          \* the children of the scratch container
  rmath,          \* MATH_SNIPPETS of this pass
  rcode           \* CODE_SNIPPETS of this pass

pipeVars == <<pc, dom, MATH_SNIPPETS, CODE_SNIPPETS, md, ret, run, src, emMath, emCode, stale>>

postVars == <<ppc, variant, pin, pout1, pout2>>

engineVars == <<hpc, inFlight, queued, lastSig, cooldownUntil, timer, timers, events,
                now, toast, passes, arrived, wrote, thrown, promises, trigSel, lastStart>>

copyVars == <<lastCopied, csel, cwrote, ctoast, cevents>>

wikiVars == <<wpc, wnode, wout>>

texVars == <<tpc, tin, tout, tforce>>

scratchVars == <<spc, sscript, shost, sinit, sroot, smath, scode>>

rangeVars == <<rpc, ldoc, rstart, rend, rstart0, rend0, rfrag, rmath, rcode>>

vars == <<pipeVars, postVars, engineVars, copyVars, wikiVars, texVars, scratchVars, rangeVars>>

(***************************************************************************)
(* Bounds and inputs                                                       *)
(***************************************************************************)
\* the longest scratch container drawn from NodeSet
MaxNodes == 2
\* the number of runs in a behaviour
MaxRuns == 2

SeqsUpTo(S, n) == UNION {[1..k -> S] : k \in 0..n}

TextSet ==
  { <<"a">>,
    <<BS, "(", " ", BS, ")">>,                     \* \( \)
    <<"@", "@", "M", "A", "T", "H", "7", "@", "@">> }

LatexSet ==
  { <<"x">>, <<" ">>, <<"@", "@", "C", "O", "D", "E", "0", "@", "@">> }

CodeSet ==
  { <<"c">>,
    <<"a", NL, NL, NL, "b">>,
    <<" ", NL>>,
    <<"C", "o", "p", "y", " ", "c", "o", "d", "e">>,
    <<"@", "@", "M", "A", "T", "H", "0", "@", "@">> }

NodeSet ==
  {TextNode(t) : t \in TextSet}
    \cup {MathNode("katex", t, FALSE) : t \in LatexSet}
    \cup {MathNode("katex", <<"y">>, TRUE)}
    \cup {MathNode("mjx", <<"m">>, TRUE), MathNode("math", <<"n">>, FALSE),
          MathNode("script", <<>>, TRUE)}
    \cup {PreNode(t, <<>>) : t \in CodeSet}
    \cup {PreNode(<<"c">>, <<"p", "y">>)}

\* the KaTeX paragraph "Let <inline x=1> and <display y=2>"
KaTeXParagraph ==
  << TextNode(<<"L", "e", "t", " ">>),
     MathNode("katex", <<"x", "=", "1">>, FALSE),
     TextNode(<<" ", "a", "n", "d", " ">>),
     MathNode("katex", <<"y", "=", "2">>, TRUE) >>

DomSet == SeqsUpTo(NodeSet, MaxNodes) \cup {KaTeXParagraph}

(***************************************************************************)
(* part_001: selectionToMarkdown, step by step                             *)
(***************************************************************************)
PipelineIdle ==
  /\ pc = "idle"
  /\ dom = <<>>
  /\ MATH_SNIPPETS = <<>>
  /\ CODE_SNIPPETS = <<>>
  /\ md = <<>>
  /\ ret = "none"
  /\ run = 0
  /\ src = <<>>
  /\ emMath = <<>>
  /\ emCode = <<>>
  /\ stale = FALSE

\* no text is being postprocessed
PostIdle ==
  /\ ppc = "in"
  /\ variant = "none"
  /\ pin = <<>>
  /\ pout1 = <<>>
  /\ pout2 = <<>>

\* constructor() of Engine, let timer = null, and a page with nothing pending
EngineIdle ==
  /\ hpc = "idle"
  /\ inFlight = FALSE
  /\ queued = FALSE
  /\ lastSig = "null"
  /\ cooldownUntil = 0
  /\ timer = -1
  /\ timers = {}
  /\ events = 0
  /\ now = 0
  /\ toast = "none"
  /\ passes = 0
  /\ arrived = 0
  /\ wrote = "none"
  /\ thrown = "none"
  /\ promises = 0
  /\ trigSel = "unset"
  /\ lastStart = -1

\* let lastCopied = ""
CopyIdle ==
  /\ lastCopied = <<>>
  /\ csel = "unset"
  /\ cwrote = "none"
  /\ ctoast = "none"
  /\ cevents = 0

\* no element is being replaced
WikiIdle ==
  /\ wpc = "in"
  /\ wnode = <<>>
  /\ wout = <<>>

\* no TeX helper is being applied
TexIdle ==
  /\ tpc = "in"
  /\ tin = <<>>
  /\ tout = <<>>
  /\ tforce = FALSE

\* no selection is being converted
RangeIdle ==
  /\ rpc = "selected"
  /\ ldoc = <<>>
  /\ rstart = <<>>
  /\ rend = <<>>
  /\ rstart0 = <<>>
  /\ rend0 = <<>>
  /\ rfrag = <<>>
  /\ rmath = <<>>
  /\ rcode = <<>>

\* no scratch tree is being processed
ScratchIdle ==
  /\ spc = "cloned"
  /\ sscript = "none"
  /\ shost = "none"
  /\ sinit = <<>>
  /\ sroot = <<>>
  /\ smath = <<>>
  /\ scode = <<>>

InitPipeline ==
  PipelineIdle /\ PostIdle /\ EngineIdle /\ CopyIdle /\ WikiIdle /\ TexIdle /\ ScratchIdle /\ RangeIdle

\* lines 428-433: no selection, a collapsed one, or one inside an editable
StartRejected ==
  /\ pc = "idle"
  /\ ret' = "null"
  /\ UNCHANGED <<pc, dom, MATH_SNIPPETS, CODE_SNIPPETS, md, run, src, emMath, emCode, stale>>
  /\ UNCHANGED <<postVars, engineVars, copyVars, wikiVars, texVars, scratchVars, rangeVars>>

\* lines 428-463: the range is expanded and cloned into the scratch container,
\* then both registries are reset
Start ==
  /\ pc = "idle"
  /\ run < MaxRuns
  /\ \E d \in DomSet :
       /\ dom' = d
       /\ src' = d
  /\ MATH_SNIPPETS' = ResetRegistry(MATH_SNIPPETS)
  /\ CODE_SNIPPETS' = ResetRegistry(CODE_SNIPPETS)
  /\ run' = run + 1
  /\ stale' = (MATH_SNIPPETS # <<>> \/ CODE_SNIPPETS # <<>>)
  /\ emMath' = <<>>
  /\ emCode' = <<>>
  /\ md' = <<>>
  /\ ret' = "none"
  /\ pc' = "code"
  /\ UNCHANGED <<postVars, engineVars, copyVars, wikiVars, texVars, scratchVars, rangeVars>>

\* line 465: convertCodeBlocks(container)
ConvertCodeBlocks ==
  /\ pc = "code"
  /\ LET st == CodePass(dom, 1, [dom |-> <<>>, reg |-> CODE_SNIPPETS, em |-> emCode], run) IN
       /\ dom' = st.dom
       /\ CODE_SNIPPETS' = st.reg
       /\ emCode' = st.em
  /\ pc' = "wiki"
  /\ UNCHANGED <<MATH_SNIPPETS, md, ret, run, src, emMath, stale>>
  /\ UNCHANGED <<postVars, engineVars, copyVars, wikiVars, texVars, scratchVars, rangeVars>>

\* line 469: convertMediaWikiMath(container), which returns at line 128
ConvertMediaWikiMath ==
  /\ pc = "wiki"
  /\ pc' = "math"
  /\ UNCHANGED <<dom, MATH_SNIPPETS, CODE_SNIPPETS, md, ret, run, src, emMath, emCode, stale>>
  /\ UNCHANGED <<postVars, engineVars, copyVars, wikiVars, texVars, scratchVars, rangeVars>>

\* line 471: convertMathInContainer(container)
ConvertMathInContainer ==
  /\ pc = "math"
  /\ LET st == convertMathInContainer(dom, MATH_SNIPPETS, emMath, run) IN
       /\ dom' = st.dom
       /\ MATH_SNIPPETS' = st.reg
       /\ emMath' = st.em
  /\ pc' = "tex"
  /\ UNCHANGED <<CODE_SNIPPETS, md, ret, run, src, emCode, stale>>
  /\ UNCHANGED <<postVars, engineVars, copyVars, wikiVars, texVars, scratchVars, rangeVars>>

\* line 472: convertInlineTeXTextNodes(container)
ConvertInlineTeXTextNodes ==
  /\ pc = "tex"
  /\ LET st == TeXPass(dom, 1, [dom |-> <<>>, reg |-> MATH_SNIPPETS, em |-> emMath], run) IN
       /\ dom' = st.dom
       /\ MATH_SNIPPETS' = st.reg
       /\ emMath' = st.em
  /\ pc' = "turndown"
  /\ UNCHANGED <<CODE_SNIPPETS, md, ret, run, src, emCode, stale>>
  /\ UNCHANGED <<postVars, engineVars, copyVars, wikiVars, texVars, scratchVars, rangeVars>>

\* lines 474-477: return null on a blank container, else transpile
TranspileStep ==
  /\ pc = "turndown"
  /\ IF HtmlBlank(dom)
     THEN /\ ret' = "null"
          /\ pc' = "done"
          /\ md' = md
     ELSE /\ md' = Turndown(dom)
          /\ pc' = "restoreMath"
          /\ ret' = ret
  /\ UNCHANGED <<dom, MATH_SNIPPETS, CODE_SNIPPETS, run, src, emMath, emCode, stale>>
  /\ UNCHANGED <<postVars, engineVars, copyVars, wikiVars, texVars, scratchVars, rangeVars>>

\* line 477: the transpiler throws; nothing catches it, the handler ends and
\* the registries keep what the run registered
TranspileThrows ==
  /\ pc = "turndown"
  /\ ~HtmlBlank(dom)
  /\ ret' = "throw"
  /\ pc' = "idle"
  /\ dom' = <<>>
  /\ md' = <<>>
  /\ src' = <<>>
  /\ emMath' = <<>>
  /\ emCode' = <<>>
  /\ UNCHANGED <<MATH_SNIPPETS, CODE_SNIPPETS, run, stale>>
  /\ UNCHANGED <<postVars, engineVars, copyVars, wikiVars, texVars, scratchVars, rangeVars>>

\* line 478: md = restoreMathPlaceholders(md)
RestoreMath ==
  /\ pc = "restoreMath"
  /\ md' = restoreMathPlaceholders(md, Texts(MATH_SNIPPETS))
  /\ pc' = "restoreCode"
  /\ UNCHANGED <<dom, MATH_SNIPPETS, CODE_SNIPPETS, ret, run, src, emMath, emCode, stale>>
  /\ UNCHANGED <<postVars, engineVars, copyVars, wikiVars, texVars, scratchVars, rangeVars>>

\* line 479: md = restoreCodePlaceholders(md)
RestoreCode ==
  /\ pc = "restoreCode"
  /\ md' = restoreCodePlaceholders(md, Texts(CODE_SNIPPETS))
  /\ pc' = "post"
  /\ UNCHANGED <<dom, MATH_SNIPPETS, CODE_SNIPPETS, ret, run, src, emMath, emCode, stale>>
  /\ UNCHANGED <<postVars, engineVars, copyVars, wikiVars, texVars, scratchVars, rangeVars>>

\* lines 480-485: collapseListSpacing, collapseFencePadding, trim, return md
PostProcessStep ==
  /\ pc = "post"
  /\ md' = PostProcess001(md)
  /\ ret' = "md"
  /\ pc' = "done"
  /\ UNCHANGED <<dom, MATH_SNIPPETS, CODE_SNIPPETS, run, src, emMath, emCode, stale>>
  /\ UNCHANGED <<postVars, engineVars, copyVars, wikiVars, texVars, scratchVars, rangeVars>>

\* the call returns: its locals are gone, the registries stay
Return ==
  /\ pc = "done"
  /\ pc' = "idle"
  /\ dom' = <<>>
  /\ md' = <<>>
  /\ src' = <<>>
  /\ emMath' = <<>>
  /\ emCode' = <<>>
  /\ UNCHANGED <<MATH_SNIPPETS, CODE_SNIPPETS, ret, run, stale>>
  /\ UNCHANGED <<postVars, engineVars, copyVars, wikiVars, texVars, scratchVars, rangeVars>>

Next ==
  \/ StartRejected
  \/ Start
  \/ ConvertCodeBlocks
  \/ ConvertMediaWikiMath
  \/ ConvertMathInContainer
  \/ ConvertInlineTeXTextNodes
  \/ TranspileStep
  \/ TranspileThrows
  \/ RestoreMath
  \/ RestoreCode
  \/ PostProcessStep
  \/ Return

Spec == InitPipeline /\ [][Next]_vars

(***************************************************************************)
(* Properties of the part_001 pipeline                                     *)
(***************************************************************************)
\* text holding a match of /@@MATH(\d+)@@/ or of /@@CODE(\d+)@@/
HasToken(s) ==
  \E i \in 1..Len(s) :
    TokenMatchLen(s, i, MathPrefix) > 0 \/ TokenMatchLen(s, i, CodePrefix) > 0

NoAt(t) == \A i \in 1..Len(t) : t[i] # "@"

\* the literal text of the selection holds no "@"
LiteralClean(nodes) ==
  \A i \in 1..Len(nodes) : nodes[i].kind = "text" => NoAt(nodes[i].text)

\* no registered body holds text shaped like a token
BodiesClean ==
  /\ \A i \in 1..Len(MATH_SNIPPETS) : ~HasToken(MATH_SNIPPETS[i].body)
  /\ \A i \in 1..Len(CODE_SNIPPETS) : ~HasToken(CODE_SNIPPETS[i].body)

Registered == Len(MATH_SNIPPETS) + Len(CODE_SNIPPETS)

HasCodeBody(n) == CodeBlockConvertible(n) /\ trim(sanitizeCodeText(n.text)) # <<>>

\* the text with the copy label at its start and the newlines at its end
\* removed, and nothing else changed
DropLeadingLabel(t) ==
  IF LabelEnd(t, SkipWs(t, 1)) > 0
  THEN SubSeq(t, LabelEnd(t, SkipWs(t, 1)), Len(t))
  ELSE t

ExpectedCodeBody(t) == StripTrailingNewlines(DropLeadingLabel(t))

\* C2 as stated: for every pre with a non-empty body the Markdown returned
\* holds a fenced block whose body is the textContent with only the leading
\* copy label and the trailing blank lines removed, every interior character
\* kept.
C2_CodeBodyPreserved ==
  (pc = "done" /\ ret = "md") =>
    \A i \in 1..Len(src) :
      HasCodeBody(src[i]) =>
        Contains(md, Fence \o trim(src[i].lang) \o <<NL>>
                       \o ExpectedCodeBody(src[i].text) \o <<NL>> \o Fence)

\* C3 as stated: every display math unit stands in the Markdown returned
\* with its opening $$ alone on a line before the content and its closing $$
\* alone on a line after it, and the KaTeX paragraph gives
\* "Let $x=1$ and\n\n$$\ny=2\n$$".
C3_DisplayOnOwnLines ==
  (pc = "done" /\ ret = "md" /\ LiteralClean(src) /\ BodiesClean) =>
    /\ \A i \in 1..Len(MATH_SNIPPETS) :
         (~MATH_SNIPPETS[i].inline /\ MATH_SNIPPETS[i].body # <<>>) =>
           Contains(<<NL>> \o md \o <<NL>>,
                    <<NL>> \o DD \o <<NL>> \o MATH_SNIPPETS[i].body \o <<NL>> \o DD \o <<NL>>)
    /\ src = KaTeXParagraph =>
         md = <<"L", "e", "t", " ", "$", "x", "=", "1", "$", " ", "a", "n", "d",
                NL, NL, "$", "$", NL, "y", "=", "2", NL, "$", "$">>

\* the tokens of one registry that stand in the scratch container
TokenNodesBelow(nodes, prefix, reg) ==
  \A i \in 1..Len(nodes) :
    (nodes[i].tok /\ StartsWithAt(nodes[i].text, 1, prefix))
      => TokenIndex(nodes[i].text) < Len(reg)

\* C4: within a run the tokens each registry has returned carry the indices
\* 0, 1, ..., N-1 in emission order, N the length of the registry, and when
\* the restore phase starts every token in the scratch container has an index
\* below the length of its registry.
C4_DenseIndices ==
  pc # "idle" =>
    /\ emMath = [i \in 1..Len(MATH_SNIPPETS) |-> i - 1]
    /\ emCode = [i \in 1..Len(CODE_SNIPPETS) |-> i - 1]
    /\ pc \in {"turndown", "restoreMath"} =>
         /\ TokenNodesBelow(dom, MathPrefix, MATH_SNIPPETS)
         /\ TokenNodesBelow(dom, CodePrefix, CODE_SNIPPETS)

\* C4 witness: the restore phase starts in a run that registered two math
\* units, or a math unit and a code unit.
C4_Witness ==
  /\ pc = "restoreMath"
  /\ Len(MATH_SNIPPETS) >= 1
  /\ Registered >= 2

\* C5: whatever the earlier runs did (returned early, threw part-way), both
\* registries are empty when the extraction passes of a run begin, and every
\* entry the restore passes read was registered by the run that reads it.
C5_RegistryResetPerRun ==
  /\ pc = "code" => (MATH_SNIPPETS = <<>> /\ CODE_SNIPPETS = <<>>)
  /\ pc \in {"restoreMath", "restoreCode"} =>
       /\ \A i \in 1..Len(MATH_SNIPPETS) : MATH_SNIPPETS[i].run = run
       /\ \A i \in 1..Len(CODE_SNIPPETS) : CODE_SNIPPETS[i].run = run

\* C5 witness: a run that found entries of an earlier run at its reset is
\* about to restore entries of its own.
C5_Witness ==
  /\ pc = "restoreMath"
  /\ stale
  /\ Registered >= 1

\* C6 as stated: no entry of the math registry is empty.
C6_NoEmptyMathEntry ==
  \A i \in 1..Len(MATH_SNIPPETS) : MATH_SNIPPETS[i].text # <<>>

\* C7 as stated: convertCodeBlocks registers no entry whose body, the text
\* after the copy label and the trailing blank lines are stripped, is empty
\* or white space only.
C7_NoBlankCodeBody ==
  \A i \in 1..Len(CODE_SNIPPETS) : trim(CODE_SNIPPETS[i].body) # <<>>

\* C8 as stated: text a restore pass has inserted is never taken for a live
\* placeholder, so after both passes every registered snippet whose token
\* was in the text stands in it unchanged.
C8_RestoredTextInert ==
  (pc = "post" /\ LiteralClean(src)) =>
    /\ \A i \in 1..Len(MATH_SNIPPETS) : Contains(md, MATH_SNIPPETS[i].text)
    /\ \A i \in 1..Len(CODE_SNIPPETS) : Contains(md, CODE_SNIPPETS[i].text)


(***************************************************************************)
(* Postprocessing applied twice                                            *)
(***************************************************************************)
\* the most lines a text given to the postprocessing has
MaxLines == 5

LineSet ==
  { <<>>,
    <<"a">>,
    <<"-", " ", "a">>,
    <<" ", "-", " ", "a">>,
    DD,
    Fence }

\* the texts of one to MaxLines lines of LineSet
MdSet == {JoinLines(ls) : ls \in SeqsUpTo(LineSet, MaxLines) \ {<<>>}}

\* two display blocks, each with a formula, and one blank line between them
AdjacentBlocks == JoinLines(<<DD, <<"a">>, DD, <<>>, DD, <<"a">>, DD>>)

\* texts whose lines end with a carriage return and a newline
CrlfTexts ==
  { <<"a", "\r", NL, "\r", NL, "\r", NL, "a">>,
    <<"-", " ", "a", "\r", NL, "\r", NL, "-", " ", "a">>,
    DD \o <<"\r", NL, "\r", NL>> \o DD \o <<"\r", NL, "a">> }

InitPost ==
  /\ ppc = "in"
  /\ variant = "none"
  /\ pin \in MdSet \cup {AdjacentBlocks} \cup CrlfTexts
  /\ pout1 = <<>>
  /\ pout2 = <<>>
  /\ PipelineIdle
  /\ EngineIdle
  /\ CopyIdle
  /\ WikiIdle
  /\ TexIdle
  /\ ScratchIdle
  /\ RangeIdle

\* part_001 lines 480-482 on the text given
Apply001 ==
  /\ ppc = "in"
  /\ variant' = "part_001"
  /\ pout1' = PostProcess001(pin)
  /\ ppc' = "once"
  /\ UNCHANGED <<pin, pout2, pipeVars, engineVars, copyVars, wikiVars, texVars, scratchVars, rangeVars>>

\* part_001 lines 480-482 on their own output
Reapply001 ==
  /\ ppc = "once"
  /\ variant = "part_001"
  /\ pout2' = PostProcess001(pout1)
  /\ ppc' = "twice"
  /\ UNCHANGED <<variant, pin, pout1, pipeVars, engineVars, copyVars, wikiVars, texVars, scratchVars, rangeVars>>

\* userscript line 529, md = postProcess(md), on the text given
ApplyPostProcess ==
  /\ ppc = "in"
  /\ variant' = "userscript"
  /\ pout1' = postProcess(pin)
  /\ ppc' = "once"
  /\ UNCHANGED <<pin, pout2, pipeVars, engineVars, copyVars, wikiVars, texVars, scratchVars, rangeVars>>

\* postProcess on its own output
ReapplyPostProcess ==
  /\ ppc = "once"
  /\ variant = "userscript"
  /\ pout2' = postProcess(pout1)
  /\ ppc' = "twice"
  /\ UNCHANGED <<variant, pin, pout1, pipeVars, engineVars, copyVars, wikiVars, texVars, scratchVars, rangeVars>>

\* part_001 line 481, collapseFencePadding, on the text given
ApplyCollapseFencePadding ==
  /\ ppc = "in"
  /\ variant' = "collapseFencePadding"
  /\ pout1' = collapseFencePadding(pin)
  /\ ppc' = "once"
  /\ UNCHANGED <<pin, pout2, pipeVars, engineVars, copyVars, wikiVars, texVars, scratchVars, rangeVars>>

\* part_001 line 480, collapseListSpacing, on the text given
ApplyCollapseListSpacing ==
  /\ ppc = "in"
  /\ variant' = "collapseListSpacing"
  /\ pout1' = collapseListSpacing(pin)
  /\ ppc' = "once"
  /\ UNCHANGED <<pin, pout2, pipeVars, engineVars, copyVars, wikiVars, texVars, scratchVars, rangeVars>>

\* userscript line 483, normalizeBlanklinesBlockSafe(out, Policies.blanklineMax)
ApplyNormalizeBlanklines ==
  /\ ppc = "in"
  /\ variant' = "normalizeBlanklinesBlockSafe"
  /\ pout1' = normalizeBlanklinesBlockSafe(pin, blanklineMax)
  /\ ppc' = "once"
  /\ UNCHANGED <<pin, pout2, pipeVars, engineVars, copyVars, wikiVars, texVars, scratchVars, rangeVars>>

\* userscript line 484, tightenListsBlockSafe, on the text given
ApplyTightenLists ==
  /\ ppc = "in"
  /\ variant' = "tightenListsBlockSafe"
  /\ pout1' = tightenListsBlockSafe(pin)
  /\ ppc' = "once"
  /\ UNCHANGED <<pin, pout2, pipeVars, engineVars, copyVars, wikiVars, texVars, scratchVars, rangeVars>>

\* userscript line 485, tightenAdjacentDisplayMathBlocks, on the text given
ApplyTightenAdjacent ==
  /\ ppc = "in"
  /\ variant' = "tightenAdjacentDisplayMathBlocks"
  /\ pout1' = tightenAdjacentDisplayMathBlocks(pin)
  /\ ppc' = "once"
  /\ UNCHANGED <<pin, pout2, pipeVars, engineVars, copyVars, wikiVars, texVars, scratchVars, rangeVars>>

NextPost ==
  \/ Apply001
  \/ Reapply001
  \/ ApplyPostProcess
  \/ ReapplyPostProcess
  \/ ApplyCollapseFencePadding
  \/ ApplyCollapseListSpacing
  \/ ApplyNormalizeBlanklines
  \/ ApplyTightenLists
  \/ ApplyTightenAdjacent

SpecPost == InitPost /\ [][NextPost]_vars

\* C9 as stated: the postprocessing of part_001 (collapseListSpacing, then
\* collapseFencePadding, then trim) and postProcess of the userscript are
\* idempotent: applied to their own output they give it back unchanged.
C9_PostprocessIdempotent ==
  ppc = "twice" => pout2 = pout1

(***************************************************************************)
(* Blocks of a Markdown text, as the statements about the transforms read  *)
(* them: a fence line opens a code block that the next fence line closes,  *)
(* a $$ line opens a display block that the next $$ line closes; inside a  *)
(* block the delimiter of the other kind is content.                       *)
(***************************************************************************)
\* for each of lines[i..], whether it lies inside a block (st is "none",
\* "fence" or "disp"); a delimiter line is not inside
RECURSIVE InsideFrom(_, _, _)
InsideFrom(lines, i, st) ==
  IF i > Len(lines) THEN <<>>
  ELSE IF st = "none"
  THEN <<FALSE>> \o InsideFrom(lines, i + 1,
                     IF IsFenceLine(lines[i]) THEN "fence"
                     ELSE IF IsDispLine(lines[i]) THEN "disp" ELSE "none")
  ELSE IF (st = "fence" /\ IsFenceLine(lines[i])) \/ (st = "disp" /\ IsDispLine(lines[i]))
  THEN <<FALSE>> \o InsideFrom(lines, i + 1, "none")
  ELSE <<TRUE>> \o InsideFrom(lines, i + 1, st)

Inside(lines) == InsideFrom(lines, 1, "none")

\* the lines at the indices of I, in order
RECURSIVE LinesAt(_, _, _)
LinesAt(lines, I, i) ==
  IF i > Len(lines) THEN <<>>
  ELSE (IF i \in I THEN <<lines[i]>> ELSE <<>>) \o LinesAt(lines, I, i + 1)

\* the content of the blocks of a text
BlockContent(text) ==
  LET lines == SplitLines(text)
      in == Inside(lines)
  IN LinesAt(lines, {i \in 1..Len(lines) : in[i]}, 1)

\* the lines of a text that are not blank
NonBlankLines(text) ==
  LET lines == SplitLines(text)
  IN LinesAt(lines, {i \in 1..Len(lines) : ~IsBlankLine(lines[i])}, 1)

\* the blank lines of a text that lie outside every block
OutsideBlank(lines) ==
  LET in == Inside(lines)
  IN {i \in 1..Len(lines) : IsBlankLine(lines[i]) /\ ~in[i]}

\* C17 collapseFencePadding removes blank lines only: the lines that are not
\* blank stay as they are, and the lines between an opening fence and its
\* closing fence, blank or not, stay as they are
C17_FencePaddingKeepsLines ==
  (ppc = "once" /\ variant = "collapseFencePadding") =>
    /\ NonBlankLines(pout1) = NonBlankLines(pin)
    /\ BlockContent(pout1) = BlockContent(pin)

\* the blank line i separates two list items of the same indentation: it
\* lies outside every block, and the nearest lines before and after it that
\* are not blank are list items with the same indentation
SeparatesListItems(lines, i) ==
  LET B == {j \in 1..(i - 1) : ~IsBlankLine(lines[j])}
      A == {j \in (i + 1)..Len(lines) : ~IsBlankLine(lines[j])}
  IN /\ i \in OutsideBlank(lines)
     /\ B # {}
     /\ A # {}
     /\ LET b == CHOOSE j \in B : \A k \in B : k <= j
            a == CHOOSE j \in A : \A k \in A : k >= j
        IN ListIndent(lines[b]) >= 0 /\ ListIndent(lines[b]) = ListIndent(lines[a])

\* C18 list tightening (collapseListSpacing of part_001, tightenListsBlockSafe
\* of the userscript) removes a blank line only between two list items of the
\* same indentation: a text with no such blank line is returned as it is
C18_TighteningOnlyBetweenItems ==
  (/\ ppc = "once"
   /\ variant \in {"collapseListSpacing", "tightenListsBlockSafe"}
   /\ \A i \in 1..Len(SplitLines(pin)) : ~SeparatesListItems(SplitLines(pin), i))
    => pout1 = pin

\* C19 after normalizeBlanklinesBlockSafe(md, maxBlank) no run of blank lines
\* outside the blocks is longer than maxBlank, and the blocks keep all their
\* lines, also when a $$ line lies inside a code fence or a fence line inside
\* a display block
C19_BlankRunsBounded ==
  (ppc = "once" /\ variant = "normalizeBlanklinesBlockSafe") =>
    /\ LET O == OutsideBlank(SplitLines(pout1))
       IN \A i \in O : \E k \in 0..blanklineMax : i + k \notin O
    /\ BlockContent(pout1) = BlockContent(pin)

\* the merge of adjacent display blocks over lines[i..]: a closing $$, one
\* blank line and an opening $$ are dropped together
RECURSIVE MergedFrom(_, _, _)
MergedFrom(lines, i, inDisplay) ==
  IF i > Len(lines) THEN <<>>
  ELSE IF ~IsDispLine(lines[i]) THEN <<lines[i]>> \o MergedFrom(lines, i + 1, inDisplay)
  ELSE IF /\ inDisplay
          /\ i + 2 <= Len(lines)
          /\ IsBlankLine(lines[i + 1])
          /\ IsDispLine(lines[i + 2])
  THEN MergedFrom(lines, i + 3, TRUE)
  ELSE <<lines[i]>> \o MergedFrom(lines, i + 1, ~inDisplay)

\* C20 tightenAdjacentDisplayMathBlocks merges two display blocks that one
\* blank line separates into one block (the closing $$, the blank line and
\* the opening $$ go), and keeps a blank line that follows an opening $$
C20_AdjacentBlocksMerged ==
  (/\ ppc = "once"
   /\ variant = "tightenAdjacentDisplayMathBlocks"
   /\ ~Contains(pin, Fence))
    => pout1 = JoinLines(MergedFrom(SplitLines(pin), 1, FALSE))

(***************************************************************************)
(* userscript: Engine, schedule and the event loop                         *)
(*                                                                         *)
(* The page runs one task at a time: a listener or a timeout callback      *)
(* starts only when no other is running (hpc = "idle").  Input events can  *)
(* arrive at any moment, also while handleTrigger runs; they wait in the   *)
(* event loop.  handleTrigger is taken in three steps so that the time it  *)
(* spends between setting inFlight and its finally block is visible.       *)
(***************************************************************************)
\* Policies.debounceMs and Policies.cooldownMs
debounceMs == 120
cooldownMs == 80

\* the most events waiting in the event loop
MaxEvents == 2
\* the clock stops advancing here
MaxTime == 400
\* the clock advances in steps of this many milliseconds
TimeStep == 40

\* what the selection is when handleTrigger looks at it: nothing usable
\* (none, collapsed, in an editable, blank text) or a text with a signature
SelSet == {"none", "s1", "s2"}

\* the events the listeners of lines 555-559 receive
EventSet == {"mouseup", "keyup", "Shift"}

Debounce(at) == [at |-> at, kind |-> "debounce"]
Rerun(at) == [at |-> at, kind |-> "rerun"]

\* a schedule that does not clear the timer it replaces
KeepTimeout(pending, id) == pending

\* clearTimeout(timer)
ClearTimeout(pending, id) == pending \ {Debounce(id)}

InitEngine ==
  EngineIdle /\ PipelineIdle /\ PostIdle /\ CopyIdle /\ WikiIdle /\ TexIdle /\ ScratchIdle /\ RangeIdle

\* a fingerprint guard that never finds the selection unchanged
NeverSameSig(sig, last) == FALSE

\* sig === this.lastSig
SameSig(sig, last) == sig = last

\* this.cooldownUntil = now + Policies.cooldownMs, without the cooldown
NoCooldown(t) == t

\* a cooldown that outlasts the debounce delay
LongCooldown(t) == t + debounceMs + cooldownMs

\* this.cooldownUntil = now + Policies.cooldownMs
CooldownEnd(t) == t + cooldownMs

\* a mouseup or keyup happens; the event waits for its listener to run
UserEvent ==
  /\ events < MaxEvents
  /\ events' = events + 1
  /\ arrived' = IF inFlight THEN arrived + 1 ELSE arrived
  /\ UNCHANGED <<hpc, inFlight, queued, lastSig, cooldownUntil, timer, timers,
                 now, toast, passes, wrote, thrown, promises, trigSel, lastStart>>
  /\ UNCHANGED <<pipeVars, postVars, copyVars, wikiVars, texVars, scratchVars, rangeVars>>

\* time passes
Tick ==
  /\ now < MaxTime
  /\ now' = now + TimeStep
  /\ UNCHANGED <<hpc, inFlight, queued, lastSig, cooldownUntil, timer, timers,
                 events, toast, passes, arrived, wrote, thrown, promises, trigSel,
                 lastStart>>
  /\ UNCHANGED <<pipeVars, postVars, copyVars, wikiVars, texVars, scratchVars, rangeVars>>

\* lines 549-559: the listener of the next event runs; schedule() unless the
\* key is a modifier
Schedule ==
  /\ hpc = "idle"
  /\ events > 0
  /\ events' = events - 1
  /\ \E e \in EventSet :
       IF e = "Shift"
       THEN UNCHANGED <<timer, timers>>
       ELSE /\ timers' = ClearTimeout(timers, timer) \cup {Debounce(now + debounceMs)}
            /\ timer' = now + debounceMs
  /\ UNCHANGED <<hpc, inFlight, queued, lastSig, cooldownUntil, now, toast,
                 passes, arrived, wrote, thrown, promises, trigSel, lastStart>>
  /\ UNCHANGED <<pipeVars, postVars, copyVars, wikiVars, texVars, scratchVars, rangeVars>>

\* lines 497-519: a timeout that is due calls handleTrigger, which returns
\* early or sets inFlight and enters the try block
HandleTrigger ==
  /\ hpc = "idle"
  /\ \E t \in timers, sel \in SelSet :
       /\ t.at <= now
       /\ timers' = timers \ {t}
       /\ trigSel' = sel
       /\ IF now < cooldownUntil
          THEN UNCHANGED <<hpc, inFlight, queued, lastSig, cooldownUntil, passes, arrived,
                           wrote, thrown, lastStart>>
          ELSE /\ cooldownUntil' = CooldownEnd(now)
               /\ IF sel = "none" \/ SameSig(sel, lastSig)
                  THEN UNCHANGED <<hpc, inFlight, queued, lastSig, passes, arrived,
                                   wrote, thrown, lastStart>>
                  ELSE /\ lastSig' = sel
                       /\ IF inFlight
                          THEN /\ queued' = TRUE
                               /\ UNCHANGED <<hpc, inFlight, passes, arrived, wrote,
                                              thrown, lastStart>>
                          ELSE /\ inFlight' = TRUE
                               /\ hpc' = "pass"
                               /\ passes' = passes + 1
                               /\ arrived' = 0
                               /\ wrote' = "none"
                               /\ thrown' = "none"
                               /\ lastStart' = now
                               /\ UNCHANGED queued
  /\ UNCHANGED <<timer, events, now, toast, promises>>
  /\ UNCHANGED <<pipeVars, postVars, copyVars, wikiVars, texVars, scratchVars, rangeVars>>

\* the toast of lines 532-535 for what writeNow returned
WriteToast(write, shown) ==
  IF write = "notStarted" THEN "Copy failed (clipboard blocked)"
  ELSE IF write = "immediateOk" THEN "Copied Markdown"
  ELSE shown

\* lines 521-535: sanitize, convert (a throw of the converter is caught at
\* line 527 and the plain text is taken), postProcess, writeNow and the toast
PassCompletes ==
  /\ hpc = "pass"
  /\ \E conv \in {"none", "converter"},
        write \in {"notStarted", "immediateOk", "promise"} :
       /\ thrown' = conv
       /\ wrote' = write
       /\ promises' = IF write = "promise" THEN promises + 1 ELSE promises
       /\ toast' = WriteToast(write, toast)
  /\ hpc' = "finally"
  /\ UNCHANGED <<inFlight, queued, lastSig, cooldownUntil, timer, timers, events,
                 now, passes, arrived, trigSel, lastStart>>
  /\ UNCHANGED <<pipeVars, postVars, copyVars, wikiVars, texVars, scratchVars, rangeVars>>

\* lines 523, 537-539: the sanitizer throws and the outer catch takes it
PassFails ==
  /\ hpc = "pass"
  /\ thrown' = "sanitizer"
  /\ toast' = "Copy failed"
  /\ hpc' = "finally"
  /\ UNCHANGED <<inFlight, queued, lastSig, cooldownUntil, timer, timers, events,
                 now, passes, arrived, wrote, promises, trigSel, lastStart>>
  /\ UNCHANGED <<pipeVars, postVars, copyVars, wikiVars, texVars, scratchVars, rangeVars>>

\* a finally block that leaves inFlight set
FinallyKeepsInFlight ==
  /\ hpc = "finally"
  /\ passes' = passes - 1
  /\ hpc' = "idle"
  /\ UNCHANGED <<inFlight, queued, timers, lastSig, cooldownUntil, timer, events, now,
                 toast, arrived, wrote, thrown, promises, trigSel, lastStart>>
  /\ UNCHANGED <<pipeVars, postVars, copyVars, wikiVars, texVars, scratchVars, rangeVars>>

\* lines 540-543: the finally block
Finally ==
  /\ hpc = "finally"
  /\ inFlight' = FALSE
  /\ passes' = passes - 1
  /\ IF queued
     THEN /\ queued' = FALSE
          /\ timers' = timers \cup {Rerun(now)}
     ELSE UNCHANGED <<queued, timers>>
  /\ hpc' = "idle"
  /\ UNCHANGED <<lastSig, cooldownUntil, timer, events, now, toast, arrived,
                 wrote, thrown, promises, trigSel, lastStart>>
  /\ UNCHANGED <<pipeVars, postVars, copyVars, wikiVars, texVars, scratchVars, rangeVars>>

\* line 534: a clipboard promise settles and its callback shows the toast
PromiseSettles ==
  /\ hpc = "idle"
  /\ promises > 0
  /\ promises' = promises - 1
  /\ \E ok \in BOOLEAN :
       toast' = IF ok THEN "Copied Markdown" ELSE "Copy failed"
  /\ UNCHANGED <<hpc, inFlight, queued, lastSig, cooldownUntil, timer, timers, events,
                 now, passes, arrived, wrote, thrown, trigSel, lastStart>>
  /\ UNCHANGED <<pipeVars, postVars, copyVars, wikiVars, texVars, scratchVars, rangeVars>>

NextEngine ==
  \/ UserEvent
  \/ Tick
  \/ Schedule
  \/ HandleTrigger
  \/ PassCompletes
  \/ PassFails
  \/ Finally
  \/ PromiseSettles

SpecEngine == InitEngine /\ [][NextEngine]_vars

DebounceTimers == {t \in timers : t.kind = "debounce"}

\* C10 as stated: at most one pass is in flight at any time, and the
\* triggers that arrive while a pass is in flight are coalesced into the one
\* flag queued, which therefore is set when the pass reaches its finally
\* block.
C10_CoalescedIntoQueued ==
  /\ passes <= 1
  /\ (hpc = "finally" /\ arrived >= 1) => queued

\* C10 amended: at most one pass is in flight at any time; handleTrigger
\* runs to completion, so it is never entered while a pass is in flight and
\* queued stays false; the triggers that arrive during a pass wait in the
\* event loop and are coalesced afterwards by schedule into its one debounce
\* timer, no rerun being scheduled.
C10_OnePassDebounced ==
  /\ passes <= 1
  /\ inFlight <=> (passes = 1)
  /\ inFlight <=> (hpc \in {"pass", "finally"})
  /\ ~queued
  /\ Cardinality(DebounceTimers) <= 1
  /\ timers = DebounceTimers

\* C10 witness: two triggers have arrived during the pass that is in flight
\* and is about to run its finally block.
C10_Witness ==
  /\ hpc = "finally"
  /\ inFlight
  /\ arrived >= 2

\* a step in which a timeout fires and calls handleTrigger
TriggerCall == hpc = "idle" /\ timers' \subseteq timers /\ timers' # timers

C13_ThrowMeansNoWrite ==
  (hpc = "finally" /\ thrown # "none") => (toast = "Copy failed" /\ wrote = "none")

MaxCopyEvents == 3

\* the selections of an event: none or collapsed, or one node of NodeSet
CopySelSet == {<<>>} \cup {<<n>> : n \in NodeSet}

\* the one element of a singleton set (each stage below is computed once and
\* handed on as a value)
TheOne(S) == CHOOSE x \in S : TRUE

\* lines 474-482 on what the passes left: the code pass c and the TeX pass t
RestoreAndPost(c, t) ==
  IF HtmlBlank(t.dom) THEN <<>>
  ELSE TheOne({PostProcess001(r) :
         r \in {restoreCodePlaceholders(x, Texts(c.reg)) :
           x \in {restoreMathPlaceholders(y, Texts(t.reg)) :
             y \in {Turndown(t.dom)}}}})

\* lines 469-472 after the code pass c
MathPasses(c) ==
  TheOne({TeXPass(m.dom, 1, [dom |-> <<>>, reg |-> m.reg, em |-> m.em], 1) :
            m \in {convertMathInContainer(c.dom, ResetRegistry(<<>>), <<>>, 1)}})

\* selectionToMarkdown() on the container d, lines 462-485
selectionToMarkdown(d) ==
  TheOne({TheOne({RestoreAndPost(c, t) : t \in {MathPasses(c)}}) :
            c \in {CodePass(d, 1, [dom |-> <<>>, reg |-> ResetRegistry(<<>>), em |-> <<>>], 1)}})

\* a guard that never finds the text copied already
NeverCopied(text, last) == FALSE

\* md === lastCopied
AlreadyCopied(text, last) == text = last

\* lines 515-527: handleSelectionEvent on the selection d; the transpiler may
\* throw (the handler is left, nothing is written), and GM_setClipboard may
\* throw (caught at line 524, logged to the console)
HandleSelectionEvent ==
  /\ variant = "part_001"
  /\ cevents < MaxCopyEvents
  /\ cevents' = cevents + 1
  /\ \E d \in CopySelSet, turndown \in {"returns", "throws"}, clip \in {"ok", "threw"} :
       \E text \in {selectionToMarkdown(d)} :
       /\ csel' = d
       /\ IF turndown = "throws" /\ ~HtmlBlank(d)
          THEN /\ cwrote' = "aborted"
               /\ ctoast' = "none"
               /\ UNCHANGED lastCopied
          ELSE IF text = <<>> \/ AlreadyCopied(text, lastCopied)
          THEN /\ cwrote' = "none"
               /\ ctoast' = "none"
               /\ UNCHANGED lastCopied
          ELSE /\ lastCopied' = text
               /\ cwrote' = clip
               /\ ctoast' = IF clip = "ok" THEN "copied" ELSE "none"
  /\ UNCHANGED <<pipeVars, postVars, engineVars, wikiVars, texVars, scratchVars, rangeVars>>

\* the page runs the userscript or part_001
InitTriggers ==
  /\ variant \in {"userscript", "part_001"}
  /\ ppc = "in"
  /\ pin = <<>>
  /\ pout1 = <<>>
  /\ pout2 = <<>>
  /\ PipelineIdle
  /\ EngineIdle
  /\ CopyIdle
  /\ WikiIdle
  /\ TexIdle
  /\ ScratchIdle
  /\ RangeIdle

NextTriggers ==
  \/ variant = "userscript" /\ NextEngine
  \/ HandleSelectionEvent

SpecTriggers == InitTriggers /\ [][NextTriggers]_vars

C14_FailureToastNoRetry ==
  /\ (hpc = "finally" /\ wrote = "notStarted") => toast = "Copy failed (clipboard blocked)"
  /\ timers = DebounceTimers
  /\ cwrote = "threw" => ctoast = "failed"


(***************************************************************************)
(* The userscript's MediaWiki equations: normalizeWikiTex and the          *)
(* turndown rule "math", applied to one element                            *)
(***************************************************************************)
\* \w of a regular expression
IsWordChar(c) ==
  \/ IsDigit(c)
  \/ c = "_"
  \/ \E i \in 1..26 : c = UpperLetters[i] \/ c = LowerLetters[i]

displaystyle == <<BS, "d", "i", "s", "p", "l", "a", "y", "s", "t", "y", "l", "e">>
textstyle == <<BS, "t", "e", "x", "t", "s", "t", "y", "l", "e">>

\* /^ws* \cmd\b/ matched at index i: the index after the command, 0 when
\* there is no match
CommandEnd(s, i, cmd) ==
  LET j == SkipWs(s, i)
      e == j + Len(cmd)
  IN IF StartsWithAt(s, j, cmd) /\ (e > Len(s) \/ ~IsWordChar(s[e]))
     THEN e ELSE 0

\* the scan without the test for a group that closes early
RECURSIVE BracesBalanced(_, _, _)
BracesBalanced(s, i, d) ==
  IF i > Len(s) THEN d = 0
  ELSE LET d1 == IF s[i] = "{" THEN d + 1 ELSE IF s[i] = "}" THEN d - 1 ELSE d
       IN IF d1 < 0 THEN FALSE ELSE BracesBalanced(s, i + 1, d1)

\* the loop of stripOuterBalancedBracesOnce from index i with the depth d:
\* TRUE when the first brace closes at the last character and nowhere before
RECURSIVE BracesWrap(_, _, _)
BracesWrap(s, i, d) ==
  IF i > Len(s) THEN d = 0
  ELSE LET d1 == IF s[i] = "{" THEN d + 1 ELSE IF s[i] = "}" THEN d - 1 ELSE d
       IN IF d1 = 0 /\ i < Len(s) THEN FALSE
          ELSE IF d1 < 0 THEN FALSE
          ELSE BracesWrap(s, i + 1, d1)

stripOuterBalancedBracesOnce(s0) ==
  LET s == trim(s0)
  IN IF ~(Len(s) >= 1 /\ s[1] = "{" /\ s[Len(s)] = "}") THEN s
     ELSE IF BracesWrap(s, 1, 0) THEN Slice(s, 2, Len(s) - 1)
     ELSE s

\* s.replace(/\}\s*$/, '')
DropClosingBrace(s) ==
  LET j == BackWs(s, Len(s))
  IN IF j >= 1 /\ s[j] = "}" THEN Slice(s, 1, j - 1) ELSE s

\* the number of rounds of the loop of normalizeWikiTex
NormalizeRounds == 3

\* the loop without the assignments forceDisplay = true
RECURSIVE NormalizeLoopUnforced(_, _, _)
NormalizeLoopUnforced(before, forceDisplay, k) ==
  IF k = 0 THEN [latex |-> before, forceDisplay |-> forceDisplay]
  ELSE LET s == trim(stripOuterBalancedBracesOnce(before))
           e1 == IF Len(s) >= 1 /\ ~IsWs(s[1]) THEN CommandEnd(s, 1, displaystyle) ELSE 0
           e2 == IF Len(s) >= 1 /\ s[1] = "{" /\ s[Len(s)] = "}"
                 THEN CommandEnd(s, 2, displaystyle) ELSE 0
       IN IF e1 > 0
          THEN NormalizeLoopUnforced(trim(Slice(s, SkipWs(s, e1), Len(s))), forceDisplay, k - 1)
          ELSE IF e2 > 0
          THEN NormalizeLoopUnforced(trim(DropClosingBrace(Slice(s, SkipWs(s, e2), Len(s)))),
                                     forceDisplay, k - 1)
          ELSE IF s = before THEN [latex |-> s, forceDisplay |-> forceDisplay]
          ELSE NormalizeLoopUnforced(s, forceDisplay, k - 1)

\* the loop of normalizeWikiTex with k rounds left
RECURSIVE NormalizeLoop(_, _, _)
NormalizeLoop(before, forceDisplay, k) ==
  IF k = 0 THEN [latex |-> before, forceDisplay |-> forceDisplay]
  ELSE LET s == trim(stripOuterBalancedBracesOnce(before))
           e1 == IF Len(s) >= 1 /\ ~IsWs(s[1]) THEN CommandEnd(s, 1, displaystyle) ELSE 0
           e2 == IF Len(s) >= 1 /\ s[1] = "{" /\ s[Len(s)] = "}"
                 THEN CommandEnd(s, 2, displaystyle) ELSE 0
       IN IF e1 > 0
          THEN NormalizeLoop(trim(Slice(s, SkipWs(s, e1), Len(s))), TRUE, k - 1)
          ELSE IF e2 > 0
          THEN NormalizeLoop(trim(DropClosingBrace(Slice(s, SkipWs(s, e2), Len(s)))),
                             TRUE, k - 1)
          ELSE IF s = before THEN [latex |-> s, forceDisplay |-> forceDisplay]
          ELSE NormalizeLoop(s, forceDisplay, k - 1)

normalizeWikiTex(texRaw) ==
  LET s0 == trim(texRaw)
  IN IF s0 = <<>> THEN [latex |-> <<>>, forceDisplay |-> FALSE]
     ELSE LET r == NormalizeLoop(trim(stripOuterBalancedBracesOnce(s0)), FALSE,
                                 NormalizeRounds)
              e == IF Len(r.latex) >= 1 /\ ~IsWs(r.latex[1])
                   THEN CommandEnd(r.latex, 1, textstyle) ELSE 0
          IN [latex |-> IF e > 0
                        THEN trim(Slice(r.latex, SkipWs(r.latex, e), Len(r.latex)))
                        ELSE trim(r.latex),
              forceDisplay |-> r.forceDisplay]

\* leftSpace and rightSpace of the rule: sibling is the text of the sibling
\* node (empty when there is none), c its character next to the element
InlineSpace(sibling, c) ==
  IF trim(sibling) # <<>> /\ ~IsWs(c) /\ c # "$" THEN <<" ">> ELSE <<>>

\* replacement of the rule "math" for the element n
MathRule(n) ==
  LET latexRaw == trim(n.tex)
      norm == normalizeWikiTex(latexRaw)
      displayByDom == n.displayBlock \/ n.fallbackDisplay \/ n.wrapperAfterP
      isDisplay == ~n.inTable /\ (norm.forceDisplay \/ displayByDom)
  IN IF latexRaw = <<>> THEN <<>>
     ELSE IF isDisplay THEN <<NL, "$", "$", NL>> \o norm.latex \o <<NL, "$", "$", NL>>
     ELSE InlineSpace(n.prev, IF n.prev = <<>> THEN "" ELSE n.prev[Len(n.prev)])
          \o <<"$">> \o norm.latex \o <<"$">>
          \o InlineSpace(n.next, IF n.next = <<>> THEN "" ELSE n.next[1])

\* the TeX sources an element may carry
AltDisplaystyle == <<"{">> \o displaystyle \o <<" ", "a", "+", "b", "}">>

TexSet ==
  { AltDisplaystyle,
    <<"a", "+", "b">>,
    <<"{", "a", "}">>,
    <<"{", "a", "}", "{", "b", "}">>,
    displaystyle \o <<"x">>,
    displaystyle \o <<" ", "{", "x", "}">>,
    <<"{", "{">> \o displaystyle \o <<" ", "x", "}", "}">>,
    <<"{", " ">> \o displaystyle \o <<" ", "x", "}", "{", "y", "}">>,
    textstyle \o <<" ", "x">>,
    <<" ">> }

SiblingSet == {<<>>, <<" ">>, <<"a">>, <<"$">>}

WikiNodeSet ==
  [tex : TexSet, displayBlock : BOOLEAN, fallbackDisplay : BOOLEAN,
   wrapperAfterP : BOOLEAN, inTable : BOOLEAN,
   prev : SiblingSet, next : SiblingSet]

InitWiki ==
  /\ wpc = "in"
  /\ wnode \in WikiNodeSet
  /\ wout = <<>>
  /\ PipelineIdle
  /\ PostIdle
  /\ EngineIdle
  /\ CopyIdle
  /\ TexIdle
  /\ ScratchIdle
  /\ RangeIdle

\* turndown calls the replacement of the rule on the element
ApplyMathRule ==
  /\ wpc = "in"
  /\ wpc' = "out"
  /\ wout' = MathRule(wnode)
  /\ UNCHANGED <<wnode, pipeVars, postVars, engineVars, copyVars, texVars, scratchVars, rangeVars>>

NextWiki == ApplyMathRule

SpecWiki == InitWiki /\ [][NextWiki]_vars

\* the element stands in inline position: no display attribute, no display
\* class, no paragraph-preceded wrapper
InlinePosition(n) == ~n.displayBlock /\ ~n.fallbackDisplay /\ ~n.wrapperAfterP

\* C16 an equation whose fallback-image alt is {\displaystyle a+b} is emitted
\* as $a+b$ when it stands in inline position, and as a $$ block with a+b on
\* its own line only when it is enclosed in a paragraph-preceded display
\* wrapper
C16_DisplaystyleAltInline ==
  (wpc = "out" /\ wnode.tex = AltDisplaystyle /\ ~wnode.inTable) =>
    /\ InlinePosition(wnode) => trim(wout) = <<"$", "a", "+", "b", "$">>
    /\ wnode.wrapperAfterP =>
         trim(wout) = <<"$", "$", NL, "a", "+", "b", NL, "$", "$">>

(***************************************************************************)
(* userscript: the line based postprocessors delete blank lines only       *)
(***************************************************************************)
LinePostprocessors ==
  {"normalizeBlanklinesBlockSafe", "tightenListsBlockSafe",
   "tightenAdjacentDisplayMathBlocks"}

\* C30 as stated: the lines of the output that are not blank are the lines of
\* the input that are not blank, in the same order and with the same content
C30_NonBlankLinesKept ==
  (ppc = "once" /\ variant \in LinePostprocessors) =>
    NonBlankLines(pout1) = NonBlankLines(pin)

\* C30 the line based postprocessors of the userscript delete blank lines
\* only, once the line ends are read as normalizeBlanklinesBlockSafe reads
\* them (a carriage return before a newline belongs to the line end): the
\* lines of the output that are not blank are those of the input, in order
C30_NonBlankLinesKeptModuloCRLF ==
  (ppc = "once" /\ variant \in LinePostprocessors) =>
    NonBlankLines(pout1) =
      NonBlankLines(IF variant = "normalizeBlanklinesBlockSafe"
                    THEN NormalizeCRLF(pin) ELSE pin)

\* C30 normalizeBlanklinesBlockSafe has deleted a blank line of a text whose
\* lines end with a carriage return and a newline
C30_Witness ==
  /\ ppc = "once"
  /\ variant = "normalizeBlanklinesBlockSafe"
  /\ Contains(pin, <<"\r", NL>>)
  /\ Len(SplitLines(pout1)) < Len(SplitLines(pin))
  /\ NonBlankLines(pout1) # <<>>

(***************************************************************************)
(* userscript: stripOuterBalancedBracesOnce and normalizeWikiTex applied   *)
(* to one string                                                           *)
(***************************************************************************)
\* the most pieces of a string given
MaxPieces == 5

\* the pieces a string is made of
PieceSet == {<<"{">>, <<"}">>, <<"a">>, <<" ">>, displaystyle, textstyle}

TexInputs == {Concat(ps) : ps \in SeqsUpTo(PieceSet, MaxPieces)}

InitTex ==
  /\ tpc = "in"
  /\ tin \in TexInputs
  /\ tout = <<>>
  /\ tforce = FALSE
  /\ PipelineIdle
  /\ PostIdle
  /\ EngineIdle
  /\ CopyIdle
  /\ WikiIdle
  /\ ScratchIdle
  /\ RangeIdle

\* a caller applies stripOuterBalancedBracesOnce to the string
ApplyStrip ==
  /\ tpc = "in"
  /\ tpc' = "stripped"
  /\ tout' = stripOuterBalancedBracesOnce(tin)
  /\ UNCHANGED <<tin, tforce, pipeVars, postVars, engineVars, copyVars, wikiVars, scratchVars, rangeVars>>

\* a caller applies normalizeWikiTex to the string
ApplyNormalize ==
  /\ tpc = "in"
  /\ tpc' = "normalized"
  /\ tout' = normalizeWikiTex(tin).latex
  /\ tforce' = normalizeWikiTex(tin).forceDisplay
  /\ UNCHANGED <<tin, pipeVars, postVars, engineVars, copyVars, wikiVars, scratchVars, rangeVars>>

NextTex ==
  \/ ApplyStrip
  \/ ApplyNormalize

SpecTex == InitTex /\ [][NextTex]_vars

\* the brace depth of s after its first i characters
BraceDepth(s, i) ==
  Cardinality({j \in 1..i : s[j] = "{"}) - Cardinality({j \in 1..i : s[j] = "}"})

\* s is one brace group: it starts with an opening brace whose matching
\* closing brace is its last character
OneBraceGroup(s) ==
  /\ Len(s) >= 2
  /\ s[1] = "{"
  /\ s[Len(s)] = "}"
  /\ BraceDepth(s, Len(s)) = 0
  /\ \A i \in 1..(Len(s) - 1) : BraceDepth(s, i) > 0

\* C25 stripOuterBalancedBracesOnce(s) removes the first and the last
\* character of the trimmed s when the trimmed s is one brace group, and
\* returns the trimmed s unchanged for every other string (two groups in a
\* row, unbalanced braces)
C25_StripOnlyOuterGroup ==
  tpc = "stripped" =>
    tout = IF OneBraceGroup(trim(tin))
           THEN Slice(trim(tin), 2, Len(trim(tin)) - 1)
           ELSE trim(tin)

\* C25 the function has returned two brace groups in a row as they were
C25_Witness ==
  /\ tpc = "stripped"
  /\ tin = <<"{", "a", "}", "{", "}">>
  /\ tout = tin

\* the macro m stands at index i of s (the \b of the regular expressions:
\* no word character follows it)
MacroAt(s, i, m) ==
  /\ StartsWithAt(s, i, m)
  /\ (i + Len(m) > Len(s) \/ ~IsWordChar(s[i + Len(m)]))

\* how often the macro m stands in s
Occurrences(s, m) == Cardinality({i \in 1..Len(s) : MacroAt(s, i, m)})

\* index of the first character at or after i that is neither white space
\* nor an opening brace
RECURSIVE SkipOpening(_, _)
SkipOpening(s, i) ==
  IF i <= Len(s) /\ (IsWs(s[i]) \/ s[i] = "{") THEN SkipOpening(s, i + 1) ELSE i

\* the macro m leads s: bare, or as the first item of outer brace groups
Leads(s, m) == MacroAt(s, SkipOpening(s, 1), m)

\* a macro m was stripped: the latex returned holds it less often than the
\* string given
Stripped(m) == Occurrences(tout, m) < Occurrences(tin, m)

C28_RunToCompletion ==
  /\ hpc = "idle" => ~inFlight
  /\ ~queued

\* C28 a pass has run and ended with a write, input events arrived while it
\* ran, and the flags are clear
C28_Witness ==
  /\ hpc = "idle"
  /\ lastStart > 0
  /\ arrived >= 1
  /\ toast = "Copied Markdown"
  /\ ~inFlight
  /\ ~queued

(***************************************************************************)
(* The guards after a pass that failed                                     *)
(***************************************************************************)
\* the last pass of the userscript failed: a step threw, or no clipboard
\* mechanism took the text
PassFailed == thrown # "none" \/ wrote = "notStarted"

\* C29 as stated: after a pass whose conversion or clipboard write failed, a
\* new trigger on the same selection returns without a write attempt, in the
\* userscript and in part_001
C29_NoWriteAfterFailure ==
  [][/\ (TriggerCall /\ PassFailed /\ trigSel' = lastSig) =>
          (hpc' = "idle" /\ wrote' = wrote /\ promises' = promises)
     /\ (cevents' = cevents + 1 /\ cwrote \in {"threw", "aborted"} /\ csel' = csel) =>
          cwrote' \in {"none", "aborted"}]_vars

\* C29 the guard is set before the outcome of the write is known: after a
\* pass of the userscript that failed, and after a clipboard write of
\* part_001 that failed, a new trigger on the same selection returns without
\* a write attempt (a conversion of part_001 that threw has not set the guard)
C29_NoWriteAfterGuardedFailure ==
  [][/\ (TriggerCall /\ PassFailed /\ trigSel' = lastSig) =>
          (hpc' = "idle" /\ wrote' = wrote /\ promises' = promises)
     /\ (cevents' = cevents + 1 /\ cwrote = "threw" /\ csel' = csel) =>
          cwrote' \in {"none", "aborted"}]_vars

\* C29 a pass of the userscript failed in the sanitizer, and a later trigger
\* on the same selection has passed the cooldown gate and returned
C29_Witness ==
  /\ variant = "userscript"
  /\ hpc = "idle"
  /\ thrown = "sanitizer"
  /\ wrote = "none"
  /\ trigSel = lastSig
  /\ cooldownUntil > lastStart + cooldownMs

(***************************************************************************)
(* part_000 and part_001: convertCodeBlocks, convertMediaWikiMath and the  *)
(* bare-math pass of convertMathInContainer on a scratch tree              *)
(*                                                                         *)
(* The scratch tree is the sequence of the container's children; a child   *)
(* may have children of its own (kids).  A node is a record                *)
(*   kind    "text" | "pre" | "wrapper" | "img" | "span" | "math" | "gone" *)
(*   text    a text node's value, a pre's own text, an img's alt, the      *)
(*           LaTeX a math element resolves to (empty: no converter, or it  *)
(*           threw)                                                        *)
(*   src     an img's src: "canonical" holds /media/math/render/, "mirror" *)
(*           holds media/math/render/svg only, "other" none of them        *)
(*   cls     "inline" | "display": the fallback-image class the node has   *)
(*   display a math element has display="block"                            *)
(*   tok     a text node that a pass created from a placeholder token      *)
(* A node is named by its path <<i>> or <<i, j>>.  replaceWith puts one     *)
(* node for one node, and a removed node stays as a node of kind "gone",   *)
(* so paths keep their meaning during a pass.                              *)
(***************************************************************************)
SNode(kind, text, imgSrc, cls, display, kids) ==
  [kind |-> kind, text |-> text, src |-> imgSrc, cls |-> cls, display |-> display,
   tok |-> FALSE, kids |-> kids]

SText(t) == SNode("text", t, "none", "none", FALSE, <<>>)
SToken(t) == [SText(t) EXCEPT !.tok = TRUE]
SPre(t, kids) == SNode("pre", t, "none", "none", FALSE, kids)
SImg(imgSrc, alt, cls) == SNode("img", alt, imgSrc, cls, FALSE, <<>>)
SSpan(cls) == SNode("span", <<>>, "none", cls, FALSE, <<>>)
SMath(display, latex) == SNode("math", latex, "none", "none", display, <<>>)
SWrapper(kids) == SNode("wrapper", <<>>, "none", "none", FALSE, kids)
SGone == SNode("gone", <<>>, "none", "none", FALSE, <<>>)

NodeAt(t, p) == IF Len(p) = 1 THEN t[p[1]] ELSE t[p[1]].kids[p[2]]

PutAt(t, p, n) ==
  IF Len(p) = 1 THEN [t EXCEPT ![p[1]] = n]
  ELSE [t EXCEPT ![p[1]].kids[p[2]] = n]

\* the paths of a tree in document order
RECURSIVE PathsFrom(_, _)
PathsFrom(t, i) ==
  IF i > Len(t) THEN <<>>
  ELSE << <<i>> >> \o [j \in 1..Len(t[i].kids) |-> <<i, j>>] \o PathsFrom(t, i + 1)

\* root.querySelectorAll(kind): the paths of the nodes of a kind, in order
RECURSIVE OfKind(_, _, _, _)
OfKind(t, ps, i, kind) ==
  IF i > Len(ps) THEN <<>>
  ELSE (IF NodeAt(t, ps[i]).kind = kind THEN <<ps[i]>> ELSE <<>>)
         \o OfKind(t, ps, i + 1, kind)

QuerySelectorAll(t, kind) == OfKind(t, PathsFrom(t, 1), 1, kind)

\* el.closest('.mwe-math-element') for the node at p
InWrapper(t, p) == Len(p) = 2 /\ t[p[1]].kind = "wrapper"

\* the node at p is still in the tree: no ancestor of it was replaced (det
\* holds the paths replaced so far)
Attached(det, p) == ~(Len(p) = 2 /\ <<p[1]>> \in det)

\* node.replaceWith(n) for the node at p
ReplaceWith(st, p, n) ==
  [st EXCEPT !.tree = IF Attached(st.det, p) THEN PutAt(st.tree, p, n) ELSE st.tree,
             !.det = st.det \cup {p}]

\* pre.textContent
PreText(n) ==
  n.text \o Concat([j \in 1..Len(n.kids) |->
                      IF n.kids[j].kind \in {"text", "pre"} THEN n.kids[j].text ELSE <<>>])

\* convertCodeBlocks: pres.forEach over ps[i..]; orig is the tree the list
\* was taken from
RECURSIVE CodeBlocksFrom(_, _, _, _)
CodeBlocksFrom(ps, i, orig, st) ==
  IF i > Len(ps) THEN st
  ELSE LET codeText == PreText(NodeAt(orig, ps[i])) IN
       IF trim(codeText) = <<>> THEN CodeBlocksFrom(ps, i + 1, orig, st)
       ELSE LET c == createCodePlaceholder(st.code, codeText, <<>>, 1) IN
            CodeBlocksFrom(ps, i + 1, orig,
                           ReplaceWith([st EXCEPT !.code = c.reg], ps[i], SToken(c.token)))

\* isWikimediaMathRenderImg(img) of part_001
IsRenderImg(n) == n.kind = "img" /\ n.src \in {"canonical", "mirror"}

\* the selector img[src*="/media/math/render/"] of part_000
IsCanonicalImg(n) == n.kind = "img" /\ n.src = "canonical"

\* the first child with the property P, or SGone
FirstKid(n, P(_)) ==
  LET J == {j \in 1..Len(n.kids) : P(n.kids[j])}
  IN IF J = {} THEN SGone ELSE n.kids[CHOOSE j \in J : \A k \in J : j <= k]

IsImg(n) == n.kind = "img"
IsMathEl(n) == n.kind = "math"

\* latex of a wrapper: the alt of its render image, else what the converter
\* makes of its math element
WrapperLatex(w, script) ==
  LET img == IF script = "part_000" THEN FirstKid(w, IsCanonicalImg) ELSE FirstKid(w, IsImg)
      alt == IF IsRenderImg(img) THEN trim(img.text) ELSE <<>>
  IN IF alt # <<>> THEN alt ELSE trim(FirstKid(w, IsMathEl).text)

\* a display class that is tested after the inline class
WrapperInlineDisplayLast(w) ==
  LET mathEl == FirstKid(w, IsMathEl)
      a == ~(mathEl.kind = "math" /\ mathEl.display)
      b == IF \E j \in 1..Len(w.kids) : w.kids[j].cls = "inline" THEN TRUE ELSE a
  IN IF \E j \in 1..Len(w.kids) : w.kids[j].cls = "display" THEN FALSE ELSE b

\* isInline of a wrapper
WrapperInline(w) ==
  LET mathEl == FirstKid(w, IsMathEl)
      a == ~(mathEl.kind = "math" /\ mathEl.display)
      b == IF \E j \in 1..Len(w.kids) : w.kids[j].cls = "display" THEN FALSE ELSE a
  IN IF \E j \in 1..Len(w.kids) : w.kids[j].cls = "inline" THEN TRUE ELSE b

\* step 1 of convertMediaWikiMath: wrappers.forEach over ps[i..]
RECURSIVE WrappersFrom(_, _, _, _, _)
WrappersFrom(ps, i, orig, st, script) ==
  IF i > Len(ps) THEN st
  ELSE LET w == NodeAt(orig, ps[i])
           latex == WrapperLatex(w, script)
       IN IF latex = <<>> THEN WrappersFrom(ps, i + 1, orig, st, script)
          ELSE LET c == createMathPlaceholder(st.math, latex, WrapperInline(w), 1) IN
               WrappersFrom(ps, i + 1, orig,
                            ReplaceWith([st EXCEPT !.math = c.reg], ps[i], SToken(c.token)),
                            script)

\* step 2 of part_001: mwImgs.forEach over ps[i..]
RECURSIVE MirrorImgsFrom(_, _, _, _)
MirrorImgsFrom(ps, i, orig, st) ==
  IF i > Len(ps) THEN st
  ELSE LET img == NodeAt(orig, ps[i]) IN
       IF ~IsRenderImg(img) \/ InWrapper(orig, ps[i]) \/ trim(img.text) = <<>>
       THEN MirrorImgsFrom(ps, i + 1, orig, st)
       ELSE LET c == createMathPlaceholder(st.math, trim(img.text), img.cls # "display", 1) IN
            MirrorImgsFrom(ps, i + 1, orig,
                           ReplaceWith([st EXCEPT !.math = c.reg], ps[i], SToken(c.token)))

\* the last step: leftovers.forEach (part_001), strayImgs.forEach (part_000)
RECURSIVE LeftoversFrom(_, _, _, _, _)
LeftoversFrom(ps, i, orig, st, script) ==
  IF i > Len(ps) THEN st
  ELSE LET img == NodeAt(orig, ps[i])
           remove == IF script = "part_000"
                     THEN IsCanonicalImg(img) /\ ~InWrapper(orig, ps[i])
                     ELSE IsRenderImg(img)
       IN LeftoversFrom(ps, i + 1, orig,
                        IF remove THEN [st EXCEPT !.tree = PutAt(st.tree, ps[i], SGone)]
                        ELSE st, script)

\* hasMediaWikiMathMarkup(root)
hasMediaWikiMathMarkup(t) ==
  \E i \in 1..Len(PathsFrom(t, 1)) :
    LET n == NodeAt(t, PathsFrom(t, 1)[i]) IN n.kind = "wrapper" \/ IsRenderImg(n)

\* the first line of convertMediaWikiMath: the function returns at once
ReturnsAtOnce(t, script, host) ==
  IF script = "part_000" THEN host # "canonical"
  ELSE host # "canonical" /\ ~hasMediaWikiMathMarkup(t)

\* convertMediaWikiMath(root) on the tree and registry of st
convertMediaWikiMath(st, script, host) ==
  IF ReturnsAtOnce(st.tree, script, host) THEN st
  ELSE LET s1 == WrappersFrom(QuerySelectorAll(st.tree, "wrapper"), 1, st.tree,
                              [st EXCEPT !.det = {}], script)
           s2 == IF script = "part_000" THEN s1
                 ELSE MirrorImgsFrom(QuerySelectorAll(s1.tree, "img"), 1, s1.tree,
                                     [s1 EXCEPT !.det = {}])
       IN LeftoversFrom(QuerySelectorAll(s2.tree, "img"), 1, s2.tree, s2, script)

\* the pass "bare <math>" of convertMathInContainer: mathEls.forEach
RECURSIVE BareMathFrom(_, _, _, _)
BareMathFrom(ps, i, orig, st) ==
  IF i > Len(ps) THEN st
  ELSE LET m == NodeAt(orig, ps[i]) IN
       IF InWrapper(orig, ps[i]) \/ trim(m.text) = <<>>
       THEN BareMathFrom(ps, i + 1, orig, st)
       ELSE LET c == createMathPlaceholder(st.math, trim(m.text), ~m.display, 1) IN
            BareMathFrom(ps, i + 1, orig,
                         ReplaceWith([st EXCEPT !.math = c.reg], ps[i], SToken(c.token)))

\* the most children of the scratch container
MaxScratch == 2

LatexX == <<"x">>
LatexY == <<"y">>

\* the wrappers (span.mwe-math-element) of the selections considered
WrapperSet ==
  { SWrapper(<<SImg("canonical", LatexX, "inline")>>),
    SWrapper(<<SImg("canonical", LatexX, "display")>>),
    SWrapper(<<SMath(TRUE, LatexY), SImg("canonical", LatexX, "inline")>>),
    SWrapper(<<SMath(TRUE, LatexY), SImg("canonical", LatexX, "display")>>),
    SWrapper(<<SMath(FALSE, LatexY), SImg("canonical", LatexX, "display")>>),
    SWrapper(<<SMath(TRUE, LatexY), SSpan("inline"), SImg("canonical", LatexX, "display")>>),
    SWrapper(<<SMath(TRUE, LatexY)>>),
    SWrapper(<<SMath(FALSE, LatexY)>>),
    SWrapper(<<SMath(TRUE, LatexY), SSpan("display")>>),
    SWrapper(<<SImg("canonical", <<>>, "inline")>>),
    SWrapper(<<SImg("mirror", LatexX, "inline")>>),
    SWrapper(<<SMath(TRUE, <<>>), SImg("other", LatexX, "none")>>) }

\* the children of the scratch container
ScratchNodeSet ==
  { SText(<<"a">>),
    SPre(<<"a">>, <<>>),
    SPre(<<"a">>, <<SPre(<<"b">>, <<>>)>>),
    SImg("canonical", LatexX, "inline"),
    SImg("canonical", LatexX, "display"),
    SImg("canonical", <<>>, "inline"),
    SImg("mirror", LatexX, "inline"),
    SImg("other", LatexX, "none"),
    SMath(TRUE, LatexY),
    SMath(FALSE, LatexY) } \cup WrapperSet

ScratchSet == SeqsUpTo(ScratchNodeSet, MaxScratch) \ {<<>>}

InitScratch ==
  /\ spc = "cloned"
  /\ sscript \in {"part_000", "part_001"}
  /\ shost \in {"canonical", "mirror"}
  /\ sinit \in ScratchSet
  /\ sroot = sinit
  /\ smath = <<>>
  /\ scode = <<>>
  /\ PipelineIdle
  /\ PostIdle
  /\ EngineIdle
  /\ CopyIdle
  /\ WikiIdle
  /\ TexIdle
  /\ RangeIdle

\* the tree and the registries as the state of a pass
ScratchState == [tree |-> sroot, math |-> smath, code |-> scode, det |-> {}]

\* convertCodeBlocks(container)
ScratchCodeBlocks ==
  /\ spc = "cloned"
  /\ spc' = "code"
  /\ \E st \in {CodeBlocksFrom(QuerySelectorAll(sroot, "pre"), 1, sroot, ScratchState)} :
       /\ sroot' = st.tree
       /\ scode' = st.code
  /\ UNCHANGED <<sscript, shost, sinit, smath>>
  /\ UNCHANGED <<pipeVars, postVars, engineVars, copyVars, wikiVars, texVars, rangeVars>>

\* convertMediaWikiMath(container)
ScratchMediaWikiMath ==
  /\ spc = "code"
  /\ spc' = "wiki"
  /\ \E st \in {convertMediaWikiMath(ScratchState, sscript, shost)} :
       /\ sroot' = st.tree
       /\ smath' = st.math
  /\ UNCHANGED <<sscript, shost, sinit, scode>>
  /\ UNCHANGED <<pipeVars, postVars, engineVars, copyVars, wikiVars, texVars, rangeVars>>

\* convertMathInContainer(container), its pass over the math elements
ScratchBareMath ==
  /\ spc = "wiki"
  /\ spc' = "math"
  /\ \E st \in {BareMathFrom(QuerySelectorAll(sroot, "math"), 1, sroot, ScratchState)} :
       /\ sroot' = st.tree
       /\ smath' = st.math
  /\ UNCHANGED <<sscript, shost, sinit, scode>>
  /\ UNCHANGED <<pipeVars, postVars, engineVars, copyVars, wikiVars, texVars, rangeVars>>

NextScratch ==
  \/ ScratchCodeBlocks
  \/ ScratchMediaWikiMath
  \/ ScratchBareMath

SpecScratch == InitScratch /\ [][NextScratch]_vars

\* how many nodes of the tree are the token
TokenCount(t, token) ==
  Cardinality({i \in 1..Len(PathsFrom(t, 1)) :
                 LET n == NodeAt(t, PathsFrom(t, 1)[i]) IN n.tok /\ n.text = token})

\* C22 after the passes every registry entry is referenced by exactly one
\* token of the scratch tree: no construct was registered twice and no entry
\* is an orphan, also for a pre nested in a pre that was replaced
C22_EveryEntryHasOneToken ==
  spc = "math" =>
    /\ \A i \in 0..(Len(smath) - 1) : TokenCount(sroot, MathToken(i)) = 1
    /\ \A i \in 0..(Len(scode) - 1) : TokenCount(sroot, CodeToken(i)) = 1

\* a wrapper holds an element with a fallback-image class
HasFallbackClass(w, cls) == \E j \in 1..Len(w.kids) : w.kids[j].cls = cls

\* a wrapper's first math element has display="block"
HasBlockMath(w) == \E j \in 1..Len(w.kids) :
  /\ w.kids[j].kind = "math"
  /\ w.kids[j].display
  /\ \A k \in 1..(j - 1) : w.kids[k].kind # "math"

\* the wrapper at i was replaced by a token in the wiki pass
WrapperConverted(i) ==
  /\ i \in 1..Len(sinit)
  /\ sinit[i].kind = "wrapper"
  /\ sroot[i].tok

\* the registry entry of the token that replaced the wrapper at i
WrapperEntry(i) == smath[TokenIndex(sroot[i].text) + 1]

\* C23 a converted wrapper is registered inline whenever it holds an element
\* with the inline fallback-image class, otherwise display when its math has
\* display="block" or it holds the display fallback-image class, otherwise
\* inline
C23_WrapperDisplayMode ==
  spc \in {"wiki", "math"} =>
    \A i \in 1..Len(sinit) :
      WrapperConverted(i) =>
        WrapperEntry(i).inline =
          (IF HasFallbackClass(sinit[i], "inline") THEN TRUE
           ELSE IF HasBlockMath(sinit[i]) \/ HasFallbackClass(sinit[i], "display") THEN FALSE
           ELSE TRUE)

\* C23 witness: a wrapper with display="block" math, the display class and the
\* inline class was converted and registered inline
C23_Witness ==
  /\ spc = "wiki"
  /\ \E i \in 1..Len(sinit) :
       /\ WrapperConverted(i)
       /\ HasFallbackClass(sinit[i], "inline")
       /\ HasFallbackClass(sinit[i], "display")
       /\ HasBlockMath(sinit[i])
       /\ WrapperEntry(i).inline

\* C24 after the wiki pass on a tree with MediaWiki math markup no
\* math-render image is left in the tree, on every host
C24_NoRenderImageLeft ==
  (spc = "wiki" /\ hasMediaWikiMathMarkup(sinit)) =>
    \A i \in 1..Len(PathsFrom(sroot, 1)) : ~IsRenderImg(NodeAt(sroot, PathsFrom(sroot, 1)[i]))

(***************************************************************************)
(* part_001: selectionToMarkdown, from the live range to the scratch       *)
(* container                                                               *)
(*                                                                         *)
(* The live document is the sequence of the children of its body; nodes    *)
(* are the records of the scratch tree, with the kinds "katex-display"     *)
(* (span.katex-display) and "katex" (span.katex, text: the TeX annotation  *)
(* of its .katex-mathml, kids: what it shows).  A node is named by its     *)
(* path from the body, the body by <<>>.  A boundary point is              *)
(* <<path of the container, offset>>.                                      *)
(***************************************************************************)
KatexSpan(latex) == SNode("katex", latex, "none", "none", FALSE, <<SText(<<"x">>)>>)
KatexDisplay(latex) == SNode("katex-display", <<>>, "none", "none", FALSE, <<KatexSpan(latex)>>)

Front(p) == SubSeq(p, 1, Len(p) - 1)
Last(p) == p[Len(p)]
IsPrefix(p, q) == Len(p) <= Len(q) /\ SubSeq(q, 1, Len(p)) = p

RECURSIVE NodeAtPath(_, _)
NodeAtPath(kids, p) ==
  IF Len(p) = 1 THEN kids[p[1]] ELSE NodeAtPath(kids[p[1]].kids, Tail(p))

RECURSIVE PutAtPath(_, _, _)
PutAtPath(kids, p, n) ==
  IF Len(p) = 1 THEN [kids EXCEPT ![p[1]] = n]
  ELSE [kids EXCEPT ![p[1]].kids = PutAtPath(kids[p[1]].kids, Tail(p), n)]

\* the paths of the nodes below the node at P, in document order
RECURSIVE AllPaths(_, _)
AllPaths(kids, P) ==
  Concat([i \in 1..Len(kids) |->
            <<Append(P, i)>> \o AllPaths(kids[i].kids, Append(P, i))])

\* node.textContent
RECURSIVE TextContent(_)
TextContent(n) ==
  IF n.kind = "text" THEN n.text
  ELSE Concat([i \in 1..Len(n.kids) |-> TextContent(n.kids[i])])

\* the place of a boundary point in document order: the child i of a node
\* counts 2i, the gap after offset o counts 2o + 1
PointKey(pt) == [i \in 1..Len(pt[1]) |-> 2 * pt[1][i]] \o <<2 * pt[2] + 1>>

RECURSIVE KeyLeq(_, _)
KeyLeq(a, b) ==
  IF a = <<>> THEN TRUE
  ELSE IF b = <<>> THEN FALSE
  ELSE IF a[1] # b[1] THEN a[1] < b[1]
  ELSE KeyLeq(Tail(a), Tail(b))

PointLeq(a, b) == KeyLeq(PointKey(a), PointKey(b))

\* the boundary points before and after the node at q
PointBefore(q) == <<Front(q), Last(q) - 1>>
PointAfter(q) == <<Front(q), Last(q)>>

\* the kinds of element the selector list of pickMathContainer matches
MathContainerKinds == {"katex-display", "katex", "wrapper", "math"}

\* (range.startContainer.nodeType === Node.TEXT_NODE ? parentElement : itself)
BoundaryElement(doc, pt) ==
  IF pt[1] # <<>> /\ NodeAtPath(doc, pt[1]).kind = "text" THEN Front(pt[1]) ELSE pt[1]

\* el.closest(selectors): the path of the nearest inclusive ancestor of the
\* element at q that matches one of the selectors, <<>> if there is none
RECURSIVE closest(_, _, _)
closest(doc, q, kinds) ==
  IF q = <<>> THEN <<>>
  ELSE IF NodeAtPath(doc, q).kind \in kinds THEN q
  ELSE closest(doc, Front(q), kinds)

pickMathContainer(doc, q) == closest(doc, q, MathContainerKinds)

\* range.setStartBefore(node at q): an end before the new start follows it
setStartBefore(r, q) ==
  LET pt == PointBefore(q)
  IN [start |-> pt, end |-> IF PointLeq(pt, r.end) THEN r.end ELSE pt]

\* range.setEndAfter(node at q)
setEndAfter(r, q) ==
  LET pt == PointAfter(q)
  IN [start |-> IF PointLeq(r.start, pt) THEN r.start ELSE pt, end |-> pt]

\* the range after the expansion of its edges
ExpandEdges(doc, r) ==
  LET startMath == pickMathContainer(doc, BoundaryElement(doc, r.start))
      endMath == pickMathContainer(doc, BoundaryElement(doc, r.end))
      r1 == IF startMath # <<>> THEN setStartBefore(r, startMath) ELSE r
  IN IF endMath # <<>> THEN setEndAfter(r1, endMath) ELSE r1

\* the part of the children (kids, of the node at P) that the range s..e
\* holds (inside) or leaves in the document (~inside)
RECURSIVE RangePart(_, _, _, _, _)
RangePart(kids, P, s, e, inside) ==
  Concat([i \in 1..Len(kids) |->
    LET Q == Append(P, i)
        n == kids[i]
        hasStart == IsPrefix(Q, s[1])
        hasEnd == IsPrefix(Q, e[1])
        from == IF hasStart THEN s[2] + 1 ELSE 1
        to == IF hasEnd THEN e[2] ELSE Len(n.text)
        part == RangePart(n.kids, Q, s, e, inside)
        \* a span.katex cloned without its start has lost its .katex-mathml
        ann == IF n.kind = "katex" /\ hasStart /\ inside THEN <<>> ELSE n.text
    IN IF hasStart \/ hasEnd
       THEN IF n.kind = "text"
            THEN IF inside THEN <<[n EXCEPT !.text = Slice(n.text, from, to)]>>
                 ELSE <<[n EXCEPT !.text = Slice(n.text, 1, from - 1)
                                             \o Slice(n.text, to + 1, Len(n.text))]>>
            ELSE IF hasStart /\ hasEnd /\ inside THEN part
            ELSE <<[n EXCEPT !.kids = part, !.text = ann]>>
       ELSE IF PointLeq(s, PointBefore(Q)) /\ PointLeq(PointAfter(Q), e)
            THEN IF inside THEN <<n>> ELSE <<>>
            ELSE IF inside THEN <<>> ELSE <<n>>])

\* range.extractContents(): the fragment, and the document without it
extractContents(doc, s, e) ==
  [fragment |-> RangePart(doc, <<>>, s, e, TRUE),
   doc |-> RangePart(doc, <<>>, s, e, FALSE)]

\* range.cloneContents(): the fragment, and the document as it is
cloneContents(doc, s, e) ==
  [fragment |-> RangePart(doc, <<>>, s, e, TRUE), doc |-> doc]

\* no proper ancestor of the node at p was replaced
AttachedAt(det, p) == \A q \in det : ~(IsPrefix(q, p) /\ q # p)

\* node.replaceWith(n) for the node at p of the container
ReplaceAtPath(st, p, n) ==
  [st EXCEPT !.tree = IF AttachedAt(st.det, p) THEN PutAtPath(st.tree, p, n) ELSE st.tree,
             !.det = st.det \cup {p}]

\* root.querySelectorAll for one kind of element
RECURSIVE PathsOfKind(_, _, _, _)
PathsOfKind(t, ps, i, kind) ==
  IF i > Len(ps) THEN <<>>
  ELSE (IF NodeAtPath(t, ps[i]).kind = kind THEN <<ps[i]>> ELSE <<>>)
         \o PathsOfKind(t, ps, i + 1, kind)

\* convertCodeBlocks on a container of any depth
RECURSIVE PresFrom(_, _, _, _)
PresFrom(ps, i, orig, st) ==
  IF i > Len(ps) THEN st
  ELSE LET codeText == TextContent(NodeAtPath(orig, ps[i])) IN
       IF trim(codeText) = <<>> THEN PresFrom(ps, i + 1, orig, st)
       ELSE LET c == createCodePlaceholder(st.code, codeText, <<>>, 1) IN
            PresFrom(ps, i + 1, orig,
                     ReplaceAtPath([st EXCEPT !.code = c.reg], ps[i], SToken(c.token)))

\* the pass "KaTeX" of convertMathInContainer: katexSpans.forEach
RECURSIVE KatexSpansFrom(_, _, _, _)
KatexSpansFrom(ps, i, orig, st) ==
  IF i > Len(ps) THEN st
  ELSE LET span == NodeAtPath(orig, ps[i])
           latex == trim(span.text)
           hasDisplayWrapper == closest(orig, ps[i], {"katex-display"}) # <<>>
       IN IF latex = <<>> THEN KatexSpansFrom(ps, i + 1, orig, st)
          ELSE LET c == createMathPlaceholder(st.math, latex, ~hasDisplayWrapper, 1) IN
               KatexSpansFrom(ps, i + 1, orig,
                              ReplaceAtPath([st EXCEPT !.math = c.reg], ps[i], SToken(c.token)))

\* the most children of the body
MaxBody == 2

\* the children of the body
BodyNodeSet ==
  { SText(<<"a", "b">>),
    SPre(<<>>, <<SText(<<"c">>)>>),
    KatexSpan(LatexX),
    KatexDisplay(LatexY) }

BodySet == SeqsUpTo(BodyNodeSet, MaxBody) \ {<<>>}

\* the boundary points a selection can have: the offsets of the text nodes
TextPoints(doc) ==
  { <<AllPaths(doc, <<>>)[i], o>> :
      i \in {j \in 1..Len(AllPaths(doc, <<>>)) :
               NodeAtPath(doc, AllPaths(doc, <<>>)[j]).kind = "text"},
      o \in 0..2 }

ValidPoint(doc, pt) == pt[2] <= Len(NodeAtPath(doc, pt[1]).text)

InitRange ==
  /\ rpc = "selected"
  /\ ldoc \in BodySet
  /\ rstart \in {pt \in TextPoints(ldoc) : ValidPoint(ldoc, pt)}
  /\ rend \in {pt \in TextPoints(ldoc) : ValidPoint(ldoc, pt)}
  /\ PointLeq(rstart, rend)
  /\ rstart # rend
  /\ rstart0 = rstart
  /\ rend0 = rend
  /\ rfrag = <<>>
  /\ rmath = <<>>
  /\ rcode = <<>>
  /\ PipelineIdle
  /\ PostIdle
  /\ EngineIdle
  /\ CopyIdle
  /\ WikiIdle
  /\ TexIdle
  /\ ScratchIdle

RangeOthers == <<pipeVars, postVars, engineVars, copyVars, wikiVars, texVars, scratchVars>>

\* the try block of selectionToMarkdown: the edges of the range are expanded
ExpandRange ==
  /\ rpc = "selected"
  /\ rpc' = "expanded"
  /\ \E r \in {ExpandEdges(ldoc, [start |-> rstart, end |-> rend])} :
       /\ rstart' = r.start
       /\ rend' = r.end
  /\ UNCHANGED <<ldoc, rstart0, rend0, rfrag, rmath, rcode, RangeOthers>>

\* fragment = range.cloneContents(); container.appendChild(fragment)
CloneRange ==
  /\ rpc = "expanded"
  /\ rpc' = "cloned"
  /\ \E c \in {cloneContents(ldoc, rstart, rend)} :
       /\ rfrag' = c.fragment
       /\ ldoc' = c.doc
  /\ UNCHANGED <<rstart, rend, rstart0, rend0, rmath, rcode, RangeOthers>>

\* the container and the registries as the state of a pass
RangeState == [tree |-> rfrag, math |-> rmath, code |-> rcode, det |-> {}]

\* convertCodeBlocks(container)
RangeCodeBlocks ==
  /\ rpc = "cloned"
  /\ rpc' = "code"
  /\ \E st \in {PresFrom(PathsOfKind(rfrag, AllPaths(rfrag, <<>>), 1, "pre"), 1, rfrag,
                         RangeState)} :
       /\ rfrag' = st.tree
       /\ rcode' = st.code
  /\ UNCHANGED <<ldoc, rstart, rend, rstart0, rend0, rmath, RangeOthers>>

\* convertMathInContainer(container), its pass over span.katex
RangeKatex ==
  /\ rpc = "code"
  /\ rpc' = "math"
  /\ \E st \in {KatexSpansFrom(PathsOfKind(rfrag, AllPaths(rfrag, <<>>), 1, "katex"), 1,
                               rfrag, RangeState)} :
       /\ rfrag' = st.tree
       /\ rmath' = st.math
  /\ UNCHANGED <<ldoc, rstart, rend, rstart0, rend0, rcode, RangeOthers>>

NextRange ==
  \/ ExpandRange
  \/ CloneRange
  \/ RangeCodeBlocks
  \/ RangeKatex

SpecRange == InitRange /\ [][NextRange]_vars

\* the path of the display wrapper that holds the inline math span of the
\* boundary point, <<>> if the point is not in such a span
DisplayWrapperOf(doc, pt) ==
  LET inline == closest(doc, BoundaryElement(doc, pt), {"katex", "math"})
  IN IF inline = <<>> THEN <<>> ELSE closest(doc, Front(inline), {"katex-display"})

\* C21 a boundary that lay inside an inline math span nested in a display
\* wrapper is, after the expansion, just outside the display wrapper
C21_BoundaryOutsideDisplayWrapper ==
  rpc = "expanded" =>
    /\ DisplayWrapperOf(ldoc, rstart0) # <<>>
         => rstart = PointBefore(DisplayWrapperOf(ldoc, rstart0))
    /\ DisplayWrapperOf(ldoc, rend0) # <<>>
         => rend = PointAfter(DisplayWrapperOf(ldoc, rend0))

\* C27 no step of a conversion pass changes the live document
C27_LiveDocumentUnchanged == [][ldoc' = ldoc]_vars

\* C27 witness: the passes replaced a pre and a span.katex of the container
\* by tokens and the live document still holds both elements
C27_Witness ==
  /\ rpc = "math"
  /\ rmath # <<>>
  /\ rcode # <<>>
  /\ \A i \in 1..Len(rfrag) : rfrag[i].tok
  /\ \E i \in 1..Len(ldoc) : ldoc[i].kind = "pre"
  /\ \E i \in 1..Len(ldoc) : ldoc[i].kind = "katex"
  /\ rstart # rstart0

=============================================================================
